---------------------------- MODULE Spec2Model ----------------------------
(***************************************************************************)
(* A model of the simulation core of Kalaith/frontier: the combat units    *)
(* and the card effect resolver, the branching mission map generator and   *)
(* its traversal, and the top-level Game state machine.                    *)
(*                                                                         *)
(* The specifications share the variables below:                           *)
(*   SpecUnit    - resolver, unit and end-of-turn operations applied to    *)
(*                 one (player, target) pair drawn from bounded sets;      *)
(*   SpecMap     - Mission::generate_branching_map over bounded missions;  *)
(*   Spec        - Game::update, one frame per step;                       *)
(*   SpecMission - MissionState::update on freshly launched missions;      *)
(*   SpecCombat  - CombatState::update on combats entered from a mission;  *)
(*   SpecResults - the end of a mission and ResultState::update;           *)
(*   SpecSave    - Game::save_game and Game::load_game at the base;        *)
(*   SpecParty   - Party::add_member and Party::remove_member;             *)
(*   SpecRest    - missions resumed after a combat, walked into Rest nodes;*)
(*   SpecTurn    - cards played and turns ended in a combat;               *)
(*   SpecReturn  - encounters of a mission and the return from them;       *)
(*   SpecResume  - the boss combat of a mission and the mission resumed;   *)
(*   SpecOutcome - CombatState::update and the transition it returns;      *)
(*   SpecEvent   - EventState::update on the events of missions/events.rs; *)
(*   SpecKingdom - the handlers that spend and earn gold and supplies.     *)
(***************************************************************************)
EXTENDS Integers, Sequences, FiniteSets, TLC

VARIABLES
    mode,      \* which GameState variant is active (game.rs GameState)
    base,      \* BaseState            (payload of GameState::Base)
    select,    \* MissionSelectState   (payload of GameState::MissionSelect)
    mission,   \* MissionState         (payload of GameState::Mission)
    combat,    \* CombatState          (payload of GameState::Combat)
    results,   \* ResultState          (payload of GameState::Results)
    event,     \* EventState           (payload of GameState::Event)
    recruit,   \* RecruitState         (payload of GameState::Recruit)
    kingdom,   \* Game.kingdom
    roster,    \* Game.roster
    hist       \* history of the last step taken; in SpecSave also the save file

vars == <<mode, base, select, mission, combat, results, event, recruit,
          kingdom, roster, hist>>

\* The payload of a GameState variant that is not the active one.
Nil == [nil |-> TRUE]

----------------------------------------------------------------------------
(* Arithmetic helpers                                                      *)

Max(a, b) == IF a >= b THEN a ELSE b

Min(a, b) == IF a <= b THEN a ELSE b

\* Rust's `as i32` on a float truncates toward zero.
TruncDiv(a, b) == IF a >= 0 THEN a \div b ELSE -((-a) \div b)

\* (x as f32 * 1.5) as i32
MulVulnerable(x) == TruncDiv(3 * x, 2)

\* (x as f32 * 0.75) as i32
MulWeak(x) == TruncDiv(3 * x, 4)

Range(s) == {s[i] : i \in DOMAIN s}

\* The element of a one-element set.  Written as The({e : x \in {v}}), a
\* sequence of steps has each intermediate value v computed once, however
\* often the next step e reads it.
The(S) == CHOOSE x \in S : TRUE

RECURSIVE SumSeq(_)
SumSeq(s) == IF s = <<>> THEN 0 ELSE Head(s) + SumSeq(Tail(s))

\* Vec::remove(i) with a 1-based index
RemoveAt(s, i) == [j \in 1..(Len(s) - 1) |-> IF j < i THEN s[j] ELSE s[j + 1]]

----------------------------------------------------------------------------
(* combat/unit.rs: Unit and its status list                                *)

StatusTypes == {"Strength", "Vulnerable", "Weak", "Stun", "Regen", "Block",
                "Poison", "Burn"}

StatusEffect(t, d, v) == [effect_type |-> t, duration |-> d, value |-> v]

NoIntent == [kind |-> "Unknown", amount |-> 0]

AttackIntent(n) == [kind |-> "Attack", amount |-> n]

new_player(name, max_hp) ==
    [name |-> name, hp |-> max_hp, max_hp |-> max_hp, block |-> 0,
     stress |-> 0, is_player |-> TRUE, base_damage |-> 0,
     intent |-> NoIntent, statuses |-> <<>>]

new_enemy_with_damage(name, max_hp, base_damage) ==
    [name |-> name, hp |-> max_hp, max_hp |-> max_hp, block |-> 0,
     stress |-> 0, is_player |-> FALSE, base_damage |-> base_damage,
     intent |-> AttackIntent(base_damage), statuses |-> <<>>]

EnemyDefaultDamage == 6

new_enemy(name, max_hp) == new_enemy_with_damage(name, max_hp, EnemyDefaultDamage)

has_status(u, t) == \E i \in DOMAIN u.statuses : u.statuses[i].effect_type = t

\* Index of the first status of type t (iter().find), 0 when there is none.
FirstStatus(u, t) ==
    IF has_status(u, t)
    THEN CHOOSE i \in DOMAIN u.statuses :
            /\ u.statuses[i].effect_type = t
            /\ \A j \in 1..(i - 1) : u.statuses[j].effect_type # t
    ELSE 0

\* A bug take_damage could have: block is not consulted at all.
take_damage_ignores_block(u, amount) ==
    LET final_damage == IF has_status(u, "Vulnerable")
                        THEN MulVulnerable(amount) ELSE amount
    IN  [unit |-> [u EXCEPT !.hp = @ - final_damage], ret |-> final_damage]

\* A bug take_damage could have: the whole amount is taken off the block.
take_damage_unclamped(u, amount) ==
    LET final_damage == IF has_status(u, "Vulnerable")
                        THEN MulVulnerable(amount) ELSE amount
        remaining == Max(final_damage - u.block, 0)
    IN  [unit |-> [u EXCEPT !.block = @ - final_damage, !.hp = @ - remaining],
         ret  |-> remaining]

\* Unit::take_damage: the unit afterwards and the value returned.
take_damage(u, amount) ==
    LET final_damage == IF has_status(u, "Vulnerable")
                        THEN MulVulnerable(amount) ELSE amount
        blocked   == Min(final_damage, u.block)
        remaining == final_damage - blocked
    IN  [unit |-> [u EXCEPT !.block = @ - blocked, !.hp = @ - remaining],
         ret  |-> remaining]

add_block(u, amount) == [u EXCEPT !.block = @ + amount]

add_stress(u, amount) == [u EXCEPT !.stress = @ + amount]

reduce_stress(u, amount) == [u EXCEPT !.stress = Max(@ - amount, 0)]

\* A bug add_status could have: the new effect is always pushed.
add_status_always_push(u, e) == [u EXCEPT !.statuses = Append(@, e)]

\* Unit::add_status: refresh the entry of the same type, or push.
add_status(u, e) ==
    LET i == FirstStatus(u, e.effect_type)
    IN  IF i # 0
        THEN [u EXCEPT !.statuses[i].duration = Max(@, e.duration),
                       !.statuses[i].value =
                            IF e.value > @ THEN e.value ELSE @]
        ELSE [u EXCEPT !.statuses = Append(@, e)]


\* Unit::heal is called by the resolver; its body is not among the sources.
\* It is modelled like Adventurer::heal: clamped at max_hp.
unit_heal(u, amount) == [u EXCEPT !.hp = Min(@ + amount, u.max_hp)]

is_debuff(t) == t \in {"Vulnerable", "Weak", "Stun", "Poison", "Burn"}

\* Unit::clear_debuffs is called by the resolver; its body is not among the
\* sources.  It is modelled as retaining the statuses that are not debuffs.
clear_debuffs(u) ==
    [u EXCEPT !.statuses = SelectSeq(@, LAMBDA s : ~is_debuff(s.effect_type))]

----------------------------------------------------------------------------
(* combat/effects.rs and combat/resolver.rs                                *)

BaseEffect(kind) ==
    [kind |-> kind, amount |-> 0, bonus |-> 0, threshold_percent |-> 0,
     effect_type |-> "Strength", duration |-> 0, value |-> 0,
     target_self |-> FALSE]

Damage(n) == [BaseEffect("Damage") EXCEPT !.amount = n]

Block(n) == [BaseEffect("Block") EXCEPT !.amount = n]

ApplyStatus(t, d, v, self) ==
    [BaseEffect("ApplyStatus") EXCEPT !.effect_type = t, !.duration = d,
                                      !.value = v, !.target_self = self]

DamageKinds == {"Damage", "DamageIfNoBlock", "DamageIfLowHp",
                "DamageIfEnemyActed", "DamageIfVulnerable"}

\* TurnModifiers::default
DefaultTurnModifiers ==
    [stress_resistance |-> 0, attacks_disabled |-> FALSE,
     enemy_acted_last_turn |-> FALSE, energy_next_turn |-> 0,
     cards_to_draw |-> 0, energy_to_gain |-> 0]

\* TurnModifiers::reset
turn_mods_reset(tm) ==
    [tm EXCEPT !.stress_resistance = 0, !.attacks_disabled = FALSE,
               !.cards_to_draw = 0, !.energy_to_gain = 0]

\* A bug end_turn could have: the modifiers are reset and the flag is not
\* stored.
resolver_end_turn_keeps_flag(tm, enemy_acted) == turn_mods_reset(tm)

\* CombatResolver::end_turn
resolver_end_turn(tm, enemy_acted) ==
    [turn_mods_reset(tm) EXCEPT !.enemy_acted_last_turn = enemy_acted]

\* CombatResolver::apply_stress_to_player
apply_stress_to_player_full(tm, player, amount) == add_stress(player, amount)

apply_stress_to_player(tm, player, amount) ==
    LET reduced == IF tm.stress_resistance > 0
                   THEN Max(amount - TruncDiv(amount * tm.stress_resistance, 100), 0)
                   ELSE amount
    IN  add_stress(player, reduced)

\* The attacker's part of the damage pipeline: Strength, then Weak.
StrengthThenWeak(player, amount) ==
    LET i  == FirstStatus(player, "Strength")
        d1 == IF i # 0 THEN amount + player.statuses[i].value ELSE amount
    IN  IF has_status(player, "Weak") THEN MulWeak(d1) ELSE d1

Resolved(player, target, tm) == [player |-> player, target |-> target, turn_mods |-> tm]

\* CombatResolver::resolve, CardEffect::Damage branch.
resolve_Damage(e, tm, player, target) ==
    LET d1 == StrengthThenWeak(player, e.amount)
        d2 == IF has_status(target, "Vulnerable") THEN MulVulnerable(d1) ELSE d1
    IN  Resolved(player, take_damage(target, d2).unit, tm)

\* CombatResolver::resolve, CardEffect::ApplyStatus branch.
resolve_ApplyStatus(e, tm, player, target) ==
    LET status == StatusEffect(e.effect_type, e.duration, e.value)
    IN  IF e.target_self
        THEN Resolved(add_status(player, status), target, tm)
        ELSE Resolved(player, add_status(target, status), tm)

\* A bug the StressResistance branch could have: the percents add up.
resolve_StressResistance_sums(e, tm) ==
    [tm EXCEPT !.stress_resistance = @ + e.amount]

\* CombatResolver::resolve, CardEffect::StressResistance branch: the turn
\* modifiers afterwards.
resolve_StressResistance(e, tm) ==
    [tm EXCEPT !.stress_resistance = Max(@, e.amount)]

\* A bug the DamageIfLowHp branch could have: hp at the threshold counts as
\* low.
ConditionalTotal_at_threshold(e, tm, player, target) ==
    LET holds ==
          CASE e.kind = "DamageIfNoBlock" -> target.block = 0
            [] e.kind = "DamageIfLowHp" ->
                  player.hp <= TruncDiv(player.max_hp * e.threshold_percent, 100)
            [] e.kind = "DamageIfEnemyActed" -> tm.enemy_acted_last_turn
            [] e.kind = "DamageIfVulnerable" -> has_status(target, "Vulnerable")
    IN  IF holds THEN e.amount + e.bonus ELSE e.amount

\* CombatResolver::resolve, the `total` of the four conditional damage
\* variants: base, or base + bonus when the variant's condition holds.
ConditionalTotal(e, tm, player, target) ==
    LET holds ==
          CASE e.kind = "DamageIfNoBlock" -> target.block = 0
            [] e.kind = "DamageIfLowHp" ->
                  player.hp < TruncDiv(player.max_hp * e.threshold_percent, 100)
            [] e.kind = "DamageIfEnemyActed" -> tm.enemy_acted_last_turn
            [] e.kind = "DamageIfVulnerable" -> has_status(target, "Vulnerable")
    IN  IF holds THEN e.amount + e.bonus ELSE e.amount

\* A bug resolve could have: GainEnergy also lands on the player's block.
resolve_energy_on_unit(e, tm, player, target) ==
    CASE e.kind = "Damage" -> resolve_Damage(e, tm, player, target)
      [] e.kind = "Block" -> Resolved(add_block(player, e.amount), target, tm)
      [] e.kind = "Stress" -> Resolved(player, add_stress(target, e.amount), tm)
      [] e.kind = "SelfStress" -> Resolved(add_stress(player, e.amount), target, tm)
      [] e.kind = "ReduceStress" -> Resolved(reduce_stress(player, e.amount), target, tm)
      [] e.kind = "Heal" -> Resolved(unit_heal(player, e.amount), target, tm)
      [] e.kind = "DrawCards" ->
            Resolved(player, target, [tm EXCEPT !.cards_to_draw = @ + e.amount])
      [] e.kind = "GainEnergy" ->
            Resolved([player EXCEPT !.block = @ + e.amount], target,
                     [tm EXCEPT !.energy_to_gain = @ + e.amount])
      [] e.kind = "GainEnergyNextTurn" ->
            Resolved(player, target, [tm EXCEPT !.energy_next_turn = @ + e.amount])
      [] e.kind = "ClearDebuffs" -> Resolved(clear_debuffs(player), target, tm)
      [] e.kind = "EnemyStress" -> Resolved(player, target, tm)
      [] e.kind \in {"DamageIfNoBlock", "DamageIfLowHp", "DamageIfVulnerable"} ->
            LET total == ConditionalTotal(e, tm, player, target)
            IN  Resolved(player, take_damage(target, total).unit, tm)
      [] e.kind = "DamageIfEnemyActed" ->
            LET total == ConditionalTotal(e, tm, player, target)
            IN  Resolved(player, take_damage(target, StrengthThenWeak(player, total)).unit, tm)
      [] e.kind = "ApplyStatus" -> resolve_ApplyStatus(e, tm, player, target)
      [] e.kind = "StressResistance" ->
            Resolved(player, target, resolve_StressResistance(e, tm))
      [] e.kind = "DisableAttacks" ->
            Resolved(player, target, [tm EXCEPT !.attacks_disabled = TRUE])

\* CombatResolver::resolve: one effect applied to (player, target).
resolve(e, tm, player, target) ==
    CASE e.kind = "Damage" -> resolve_Damage(e, tm, player, target)
      [] e.kind = "Block" -> Resolved(add_block(player, e.amount), target, tm)
      [] e.kind = "Stress" -> Resolved(player, add_stress(target, e.amount), tm)
      [] e.kind = "SelfStress" -> Resolved(add_stress(player, e.amount), target, tm)
      [] e.kind = "ReduceStress" -> Resolved(reduce_stress(player, e.amount), target, tm)
      [] e.kind = "Heal" -> Resolved(unit_heal(player, e.amount), target, tm)
      [] e.kind = "DrawCards" ->
            Resolved(player, target, [tm EXCEPT !.cards_to_draw = @ + e.amount])
      [] e.kind = "GainEnergy" ->
            Resolved(player, target, [tm EXCEPT !.energy_to_gain = @ + e.amount])
      [] e.kind = "GainEnergyNextTurn" ->
            Resolved(player, target, [tm EXCEPT !.energy_next_turn = @ + e.amount])
      [] e.kind = "ClearDebuffs" -> Resolved(clear_debuffs(player), target, tm)
      [] e.kind = "EnemyStress" -> Resolved(player, target, tm)
      [] e.kind \in {"DamageIfNoBlock", "DamageIfLowHp", "DamageIfVulnerable"} ->
            LET total == ConditionalTotal(e, tm, player, target)
            IN  Resolved(player, take_damage(target, total).unit, tm)
      [] e.kind = "DamageIfEnemyActed" ->
            LET total == ConditionalTotal(e, tm, player, target)
            IN  Resolved(player, take_damage(target, StrengthThenWeak(player, total)).unit, tm)
      [] e.kind = "ApplyStatus" -> resolve_ApplyStatus(e, tm, player, target)
      [] e.kind = "StressResistance" ->
            Resolved(player, target, resolve_StressResistance(e, tm))
      [] e.kind = "DisableAttacks" ->
            Resolved(player, target, [tm EXCEPT !.attacks_disabled = TRUE])

----------------------------------------------------------------------------
(* combat/card.rs: the cards of the hard-coded fallback hand               *)

Card(id, cost, effects) == [id |-> id, cost |-> cost, effects |-> effects]

StrikeDamage == 6

GuardBlock == 5

fallback_starter_hand ==
    << Card("strike", 1, <<Damage(StrikeDamage)>>),
       Card("guard", 1, <<Block(GuardBlock)>>) >>

\* Card::starter_hand: the first five cards of the deck.  The card table is
\* an asset that is not among the sources; the fallback deck stands for it.
starter_hand == SubSeq(fallback_starter_hand, 1, Min(5, Len(fallback_starter_hand)))

is_attack(card) == \E i \in DOMAIN card.effects : card.effects[i].kind \in DamageKinds

----------------------------------------------------------------------------
(* state/combat.rs: CombatState                                            *)

NoCard == -1

StartEnergy == 3

DefaultPlayerHp == 50

ForestBeastHp == 30

\* CombatState::default
DefaultCombatState ==
    [players |-> <<new_player("Adventurer", DefaultPlayerHp)>>,
     current_player_idx |-> 0,
     enemy |-> new_enemy("Forest Beast", ForestBeastHp),
     hand |-> starter_hand,
     energy |-> StartEnergy, max_energy |-> StartEnergy,
     turn |-> 1, selected_card |-> NoCard,
     turn_mods |-> DefaultTurnModifiers,
     return_mission |-> Nil,
     damage_taken |-> <<0>>, stress_gained |-> <<0>>]

----------------------------------------------------------------------------
(* combat/unit.rs: intents and status ticks; state/combat.rs: turns       *)

BlockIntent(n) == [kind |-> "Block", amount |-> n]

\* A bug roll_intent could have: a cycle of three turns.
roll_intent_cycle_of_three(u, turn) ==
    IF u.is_player THEN u
    ELSE IF has_status(u, "Stun") THEN [u EXCEPT !.intent = NoIntent]
    ELSE [u EXCEPT !.intent =
            CASE turn % 3 = 1 -> AttackIntent(u.base_damage + 2)
              [] turn % 3 = 2 -> BlockIntent(5)
              [] OTHER -> AttackIntent(u.base_damage)]

\* Unit::roll_intent
roll_intent(u, turn) ==
    IF u.is_player THEN u
    ELSE IF has_status(u, "Stun") THEN [u EXCEPT !.intent = NoIntent]
    ELSE [u EXCEPT !.intent =
            CASE turn % 4 = 1 -> AttackIntent(u.base_damage + 2)
              [] turn % 4 = 2 -> BlockIntent(5)
              [] OTHER -> AttackIntent(u.base_damage)]

\* A bug execute_intent could have: Stun is not consulted.
execute_intent_ignores_stun(u) ==
    CASE u.intent.kind = "Attack" ->
            [unit |-> u, dmg |-> u.intent.amount, stress |-> 0]
      [] u.intent.kind = "Block" ->
            [unit |-> add_block(u, u.intent.amount), dmg |-> 0, stress |-> 0]
      [] u.intent.kind = "Buff" ->
            [unit |-> [u EXCEPT !.base_damage = @ + 2], dmg |-> 0, stress |-> 0]
      [] u.intent.kind = "Debuff" -> [unit |-> u, dmg |-> 0, stress |-> 2]
      [] OTHER -> [unit |-> u, dmg |-> 0, stress |-> 0]

\* Unit::execute_intent: the unit afterwards and the (damage, stress) pair.
execute_intent(u) ==
    IF has_status(u, "Stun") THEN [unit |-> u, dmg |-> 0, stress |-> 0]
    ELSE CASE u.intent.kind = "Attack" ->
                [unit |-> u, dmg |-> u.intent.amount, stress |-> 0]
           [] u.intent.kind = "Block" ->
                [unit |-> add_block(u, u.intent.amount), dmg |-> 0, stress |-> 0]
           [] u.intent.kind = "Buff" ->
                [unit |-> [u EXCEPT !.base_damage = @ + 2], dmg |-> 0, stress |-> 0]
           [] u.intent.kind = "Debuff" -> [unit |-> u, dmg |-> 0, stress |-> 2]
           [] OTHER -> [unit |-> u, dmg |-> 0, stress |-> 0]

\* A bug tick_statuses could have: a status is dropped only once its
\* duration is below zero.
tick_statuses_keeps_expired(u) ==
    LET ticked == [i \in DOMAIN u.statuses |->
                    [u.statuses[i] EXCEPT !.duration = @ - 1]]
    IN  [u EXCEPT !.statuses = SelectSeq(ticked, LAMBDA st : st.duration >= 0)]

\* Unit::tick_statuses
tick_statuses(u) ==
    LET regen == {i \in DOMAIN u.statuses : u.statuses[i].effect_type = "Regen"}
        hp_change == SumSeq([i \in DOMAIN u.statuses |->
                                IF i \in regen THEN u.statuses[i].value ELSE 0])
        ticked == [i \in DOMAIN u.statuses |->
                    [u.statuses[i] EXCEPT !.duration = @ - 1]]
        kept == SelectSeq(ticked, LAMBDA st : st.duration > 0)
    IN  [u EXCEPT !.statuses = kept,
                  !.hp = IF hp_change > 0 THEN Min(@ + hp_change, u.max_hp) ELSE @]

RECURSIVE ResolveAll(_, _, _, _)
\* The effect loop of try_play_selected_card.
ResolveAll(effects, tm, player, target) ==
    IF effects = <<>> THEN Resolved(player, target, tm)
    ELSE LET r == resolve(Head(effects), tm, player, target)
         IN  ResolveAll(Tail(effects), r.turn_mods, r.player, r.target)

\* A bug try_play_selected_card could have: attacks_disabled is not
\* consulted.
try_play_selected_card_unlocked(cs) ==
    LET card_idx == cs.selected_card
        card == cs.hand[card_idx + 1]
        r == ResolveAll(card.effects, cs.turn_mods,
                        cs.players[cs.current_player_idx + 1], cs.enemy)
    IN  IF card_idx # NoCard /\ card_idx < Len(cs.hand)
           /\ cs.current_player_idx < Len(cs.players)
           /\ card.cost <= cs.energy
        THEN [cs EXCEPT !.energy = @ - card.cost,
                        !.players[cs.current_player_idx + 1] = r.player,
                        !.enemy = r.target,
                        !.turn_mods = r.turn_mods,
                        !.hand = RemoveAt(@, card_idx + 1),
                        !.selected_card = NoCard]
        ELSE cs

\* CombatState::try_play_selected_card
try_play_selected_card(cs) ==
    LET card_idx == cs.selected_card
        card == cs.hand[card_idx + 1]
        r == ResolveAll(card.effects, cs.turn_mods,
                        cs.players[cs.current_player_idx + 1], cs.enemy)
    IN  IF card_idx # NoCard /\ card_idx < Len(cs.hand)
           /\ cs.current_player_idx < Len(cs.players)
           /\ card.cost <= cs.energy
           /\ ~(is_attack(card) /\ cs.turn_mods.attacks_disabled)
        THEN [cs EXCEPT !.energy = @ - card.cost,
                        !.players[cs.current_player_idx + 1] = r.player,
                        !.enemy = r.target,
                        !.turn_mods = r.turn_mods,
                        !.hand = RemoveAt(@, card_idx + 1),
                        !.selected_card = NoCard]
        ELSE cs

\* A bug the cycling loop could have: the next index is taken whether or
\* not its unit is alive.
NextLiving_any(players, idx, start_idx) == (idx + 1) % Len(players)

RECURSIVE NextLiving(_, _, _)
\* The cycling loop of end_turn: the next index whose unit is alive, or the
\* start index when the loop comes back to it.
NextLiving(players, idx, start_idx) ==
    LET next == (idx + 1) % Len(players)
    IN  IF players[next + 1].hp > 0 \/ next = start_idx THEN next
        ELSE NextLiving(players, next, start_idx)

\* A bug end_turn could have: the intent of the next turn is rolled before
\* the enemy acts.
end_turn_rolls_first(cs) ==
    LET idx == cs.current_player_idx + 1
        has_player == idx \in DOMAIN cs.players
        p1 == [tick_statuses(cs.players[idx]) EXCEPT !.block = 0]
        ex == execute_intent(roll_intent(cs.enemy, cs.turn + 1))
        enemy_acted == ex.dmg > 0 \/ ex.stress > 0
        hit == take_damage(p1, ex.dmg)
        p2 == IF ex.dmg > 0 THEN hit.unit ELSE p1
        base_stress == 2 + ex.stress
        p3 == apply_stress_to_player(cs.turn_mods, p2, base_stress)
        players1 == IF has_player THEN [cs.players EXCEPT ![idx] = p3] ELSE cs.players
        enemy1 == [tick_statuses(ex.unit) EXCEPT !.block = 0]
        next_idx == IF Len(players1) > 1
                    THEN NextLiving(players1, cs.current_player_idx,
                                    cs.current_player_idx)
                    ELSE cs.current_player_idx
    IN  [cs EXCEPT
            !.players = players1,
            !.damage_taken = IF has_player /\ ex.dmg > 0 /\ idx \in DOMAIN @
                             THEN [@ EXCEPT ![idx] = @ + hit.ret] ELSE @,
            !.stress_gained = IF has_player /\ idx \in DOMAIN @
                              THEN [@ EXCEPT ![idx] = @ + base_stress] ELSE @,
            !.turn_mods = resolver_end_turn(cs.turn_mods, enemy_acted),
            !.current_player_idx = next_idx,
            !.turn = @ + 1,
            !.energy = cs.max_energy,
            !.hand = starter_hand,
            !.enemy = enemy1]

\* CombatState::end_turn
end_turn(cs) ==
    LET idx == cs.current_player_idx + 1
        has_player == idx \in DOMAIN cs.players
        p1 == [tick_statuses(cs.players[idx]) EXCEPT !.block = 0]
        ex == execute_intent(cs.enemy)
        enemy_acted == ex.dmg > 0 \/ ex.stress > 0
        hit == take_damage(p1, ex.dmg)
        p2 == IF ex.dmg > 0 THEN hit.unit ELSE p1
        base_stress == 2 + ex.stress
        p3 == apply_stress_to_player(cs.turn_mods, p2, base_stress)
        players1 == IF has_player THEN [cs.players EXCEPT ![idx] = p3] ELSE cs.players
        enemy1 == [tick_statuses(ex.unit) EXCEPT !.block = 0]
        next_idx == IF Len(players1) > 1
                    THEN NextLiving(players1, cs.current_player_idx,
                                    cs.current_player_idx)
                    ELSE cs.current_player_idx
    IN  [cs EXCEPT
            !.players = players1,
            !.damage_taken = IF has_player /\ ex.dmg > 0 /\ idx \in DOMAIN @
                             THEN [@ EXCEPT ![idx] = @ + hit.ret] ELSE @,
            !.stress_gained = IF has_player /\ idx \in DOMAIN @
                              THEN [@ EXCEPT ![idx] = @ + base_stress] ELSE @,
            !.turn_mods = resolver_end_turn(cs.turn_mods, enemy_acted),
            !.current_player_idx = next_idx,
            !.turn = @ + 1,
            !.energy = cs.max_energy,
            !.hand = starter_hand,
            !.enemy = roll_intent(enemy1, cs.turn + 1)]

----------------------------------------------------------------------------
(* SpecUnit: the resolver and the unit operations on one pair of units     *)

\* How many operations one behaviour of SpecUnit applies.
MaxOps == 2

UnitPlayerStatuses ==
    { <<>>,
      <<StatusEffect("Strength", 2, 3)>>,
      <<StatusEffect("Weak", 2, 0)>>,
      <<StatusEffect("Strength", 2, 3), StatusEffect("Weak", 2, 0)>> }

UnitTargetStatuses ==
    { <<>>, <<StatusEffect("Vulnerable", 2, 0)>>, <<StatusEffect("Stun", 1, 0)>> }

\* The intents an enemy can hold: the one it is built with, and the block
\* of the turn cycle.
UnitIntents == {AttackIntent(EnemyDefaultDamage), BlockIntent(5)}

\* The turn numbers roll_intent is called with.
UnitTurns == 1..5

UnitBlocks == {0, 2}

UnitAmounts == {0, 1, 3, 10}

UnitStatuses ==
    { StatusEffect(t, d, v) : t \in {"Strength", "Vulnerable", "Weak"},
                              d \in {1, 3}, v \in {1, 4} }
    \cup {StatusEffect("Stun", 1, 0)}

\* The conditional damage effects played: base 5, bonus 5.
UnitConditionals ==
    {[BaseEffect(k) EXCEPT !.amount = 5, !.bonus = 5] :
        k \in {"DamageIfNoBlock", "DamageIfEnemyActed", "DamageIfVulnerable"}}
    \cup {[BaseEffect("DamageIfLowHp") EXCEPT !.amount = 5, !.bonus = 5,
                                              !.threshold_percent = t] :
            t \in {90, 100}}

\* The effects that only touch the turn modifiers.
UnitModifiers ==
    {[BaseEffect("StressResistance") EXCEPT !.amount = n] : n \in {30, 50}}
    \cup {BaseEffect("DisableAttacks")}
    \cup {[BaseEffect(k) EXCEPT !.amount = 2] :
            k \in {"DrawCards", "GainEnergy", "GainEnergyNextTurn"}}

UnitEffects ==
    {Damage(n) : n \in {0, 6, 10}} \cup {Block(5)}
    \cup {ApplyStatus(st.effect_type, st.duration, st.value, self) :
            st \in UnitStatuses, self \in BOOLEAN}
    \cup UnitConditionals \cup UnitModifiers

NoStatus == StatusEffect("Strength", 0, 0)

\* What the last operation was, with the units and the turn modifiers it
\* found; the StressResistance percents resolved since the last end_turn
\* (played), whether end_turn has been called (ended) and with which flag
\* (acted).
UnitHistOf(op, who, effect, amount, status, ret, steps, acted) ==
    [op |-> op, who |-> who, effect |-> effect, amount |-> amount,
     status |-> status, ret |-> ret, steps |-> steps,
     pre_player |-> combat.players[1], pre_target |-> combat.enemy,
     pre_mods |-> combat.turn_mods,
     played |-> IF op = "end_turn" THEN {}
                ELSE IF op = "resolve" /\ effect.kind = "StressResistance"
                     THEN hist.played \cup {effect.amount}
                     ELSE hist.played,
     ended |-> hist.ended \/ op = "end_turn",
     acted |-> IF op = "end_turn" THEN acted ELSE hist.acted]

UnitHist(op, who, effect, amount, status, ret, steps) ==
    UnitHistOf(op, who, effect, amount, status, ret, steps, FALSE)

UnitInit ==
    /\ mode = "Combat"
    /\ \E ps \in UnitPlayerStatuses, ts \in UnitTargetStatuses, b \in UnitBlocks,
          it \in UnitIntents :
          combat = [DefaultCombatState EXCEPT
                        !.players[1].statuses = ps,
                        !.enemy.statuses = ts,
                        !.enemy.block = b,
                        !.enemy.intent = it]
    /\ base = Nil /\ select = Nil /\ mission = Nil /\ results = Nil
    /\ event = Nil /\ recruit = Nil /\ kingdom = Nil /\ roster = Nil
    /\ hist = [op |-> "init", who |-> "none", effect |-> BaseEffect("none"),
               amount |-> 0, status |-> NoStatus, ret |-> 0, steps |-> 0,
               pre_player |-> combat.players[1], pre_target |-> combat.enemy,
               pre_mods |-> combat.turn_mods,
               played |-> {}, ended |-> FALSE, acted |-> FALSE]

UnitFrame == UNCHANGED <<mode, base, select, mission, results, event, recruit,
                         kingdom, roster>>

\* resolve(effect, player, target) as try_play_selected_card calls it.
UnitResolve ==
    /\ hist.steps < MaxOps
    /\ \E e \in UnitEffects :
          LET r == resolve(e, combat.turn_mods, combat.players[1], combat.enemy)
          IN  /\ combat' = [combat EXCEPT !.players[1] = r.player,
                                          !.enemy = r.target,
                                          !.turn_mods = r.turn_mods]
              /\ hist' = UnitHist("resolve", "none", e, 0, NoStatus, 0, hist.steps + 1)
    /\ UnitFrame

\* take_damage(amount) called on either unit.
UnitTakeDamage ==
    /\ hist.steps < MaxOps
    /\ \E n \in UnitAmounts, who \in {"player", "target"} :
          LET u == IF who = "player" THEN combat.players[1] ELSE combat.enemy
              r == take_damage(u, n)
          IN  /\ combat' = IF who = "player"
                           THEN [combat EXCEPT !.players[1] = r.unit]
                           ELSE [combat EXCEPT !.enemy = r.unit]
              /\ hist' = UnitHist("take_damage", who, BaseEffect("none"), n,
                                  NoStatus, r.ret, hist.steps + 1)
    /\ UnitFrame

\* add_status(effect) called on either unit.
UnitAddStatus ==
    /\ hist.steps < MaxOps
    /\ \E st \in UnitStatuses, who \in {"player", "target"} :
          LET u == IF who = "player" THEN combat.players[1] ELSE combat.enemy
          IN  /\ combat' = IF who = "player"
                           THEN [combat EXCEPT !.players[1] = add_status(u, st)]
                           ELSE [combat EXCEPT !.enemy = add_status(u, st)]
              /\ hist' = UnitHist("add_status", who, BaseEffect("none"), 0,
                                  st, 0, hist.steps + 1)
    /\ UnitFrame

\* CombatResolver::end_turn(enemy_acted) on the turn modifiers.
UnitEndTurn ==
    /\ hist.steps < MaxOps
    /\ \E enemy_acted \in BOOLEAN :
          /\ combat' = [combat EXCEPT
                            !.turn_mods = resolver_end_turn(@, enemy_acted)]
          /\ hist' = UnitHistOf("end_turn", "none", BaseEffect("none"), 0,
                                NoStatus, 0, hist.steps + 1, enemy_acted)
    /\ UnitFrame

\* CombatState::end_turn: the enemy acts on its intent and the turn passes.
UnitCombatEndTurn ==
    /\ hist.steps < MaxOps
    /\ \E ex \in {execute_intent(combat.enemy)} :
          /\ combat' = end_turn(combat)
          /\ hist' = [UnitHistOf("end_turn", "player", BaseEffect("none"), ex.dmg,
                                 NoStatus, ex.stress, hist.steps + 1,
                                 ex.dmg > 0 \/ ex.stress > 0)
                        EXCEPT !.op = "combat_end_turn"]
    /\ UnitFrame

\* tick_statuses called on either unit.
UnitTick ==
    /\ hist.steps < MaxOps
    /\ \E who \in {"player", "target"} :
          /\ combat' = IF who = "player"
                       THEN [combat EXCEPT !.players[1] = tick_statuses(@)]
                       ELSE [combat EXCEPT !.enemy = tick_statuses(@)]
          /\ hist' = UnitHist("tick_statuses", who, BaseEffect("none"), 0,
                              NoStatus, 0, hist.steps + 1)
    /\ UnitFrame

\* roll_intent(turn) called on either unit.
UnitRollIntent ==
    /\ hist.steps < MaxOps
    /\ \E turn \in UnitTurns, who \in {"player", "target"} :
          /\ combat' = IF who = "player"
                       THEN [combat EXCEPT !.players[1] = roll_intent(@, turn)]
                       ELSE [combat EXCEPT !.enemy = roll_intent(@, turn)]
          /\ hist' = UnitHist("roll_intent", who, BaseEffect("none"), turn,
                              NoStatus, 0, hist.steps + 1)
    /\ UnitFrame

\* execute_intent called on the enemy; ret is the damage, amount the stress
\* it returns.
UnitExecuteIntent ==
    /\ hist.steps < MaxOps
    /\ \E ex \in {execute_intent(combat.enemy)} :
          /\ combat' = [combat EXCEPT !.enemy = ex.unit]
          /\ hist' = UnitHist("execute_intent", "target", BaseEffect("none"),
                              ex.stress, NoStatus, ex.dmg, hist.steps + 1)
    /\ UnitFrame

UnitNext ==
    \/ UnitResolve \/ UnitTakeDamage \/ UnitAddStatus
    \/ UnitEndTurn \/ UnitCombatEndTurn \/ UnitTick
    \/ UnitRollIntent \/ UnitExecuteIntent

SpecUnit == UnitInit /\ [][UnitNext]_vars

----------------------------------------------------------------------------
(* Properties of SpecUnit                                                  *)

\* The unit an operation of SpecUnit acted on, before and after it.
PreUnit == IF hist.who = "player" THEN hist.pre_player ELSE hist.pre_target

PostUnit == IF hist.who = "player" THEN combat.players[1] ELSE combat.enemy

\* The value of the attacker's Strength status, 0 without one.
StrengthOf(u) ==
    IF has_status(u, "Strength") THEN u.statuses[FirstStatus(u, "Strength")].value ELSE 0

\* The amount of a Damage(n) event with the Vulnerable multiplier applied once.
DamageOnce(n, attacker, defender) ==
    LET a1 == n + StrengthOf(attacker)
        a2 == IF has_status(attacker, "Weak") THEN (3 * a1) \div 4 ELSE a1
    IN  IF has_status(defender, "Vulnerable") THEN (3 * a2) \div 2 ELSE a2

\* C1: resolving Damage(n) applies the x1.5 Vulnerable multiplier exactly
\* once: the target loses block and hp for (n + Strength), x0.75 if the
\* attacker is Weak, x1.5 once if the target is Vulnerable (Strength 3, Weak,
\* Damage(10), Vulnerable, block 2: 13, 9, 13, block 0 and 11 hp lost).
C1_VulnerableAppliedOnce ==
    (hist.op = "resolve" /\ hist.effect.kind = "Damage") =>
        LET amount == DamageOnce(hist.effect.amount, hist.pre_player, hist.pre_target)
        IN  /\ combat.enemy.block = Max(0, hist.pre_target.block - amount)
            /\ hist.pre_target.hp - combat.enemy.hp
                    = Max(0, amount - hist.pre_target.block)

\* C2: take_damage(n) on a unit with block b and hp h leaves
\* block = max(0, b - n'), hp = h - max(0, n' - b) and returns max(0, n' - b),
\* where n' is n, or trunc(1.5 n) when the unit has Vulnerable.
C2_TakeDamage ==
    hist.op = "take_damage" =>
        LET n1 == IF has_status(PreUnit, "Vulnerable")
                  THEN (3 * hist.amount) \div 2 ELSE hist.amount
        IN  /\ PostUnit.block = Max(0, PreUnit.block - n1)
            /\ PostUnit.hp = PreUnit.hp - Max(0, n1 - PreUnit.block)
            /\ hist.ret = Max(0, n1 - PreUnit.block)

\* A Vulnerable unit whose block absorbs part of the multiplied amount.
C2_Witness ==
    /\ hist.op = "take_damage"
    /\ has_status(PreUnit, "Vulnerable")
    /\ PreUnit.block > 0
    /\ hist.amount > PreUnit.block
    /\ PostUnit.block = 0
    /\ hist.ret = 2

\* The status an operation of SpecUnit applied and the unit it applied it to
\* (an ApplyStatus effect goes to the player when target_self is set).
AppliedStatus ==
    IF hist.op = "resolve"
    THEN StatusEffect(hist.effect.effect_type, hist.effect.duration, hist.effect.value)
    ELSE hist.status

AppliedPre ==
    IF hist.op = "resolve"
    THEN (IF hist.effect.target_self THEN hist.pre_player ELSE hist.pre_target)
    ELSE PreUnit

AppliedPost ==
    IF hist.op = "resolve"
    THEN (IF hist.effect.target_self THEN combat.players[1] ELSE combat.enemy)
    ELSE PostUnit

IsApplication ==
    \/ hist.op = "add_status"
    \/ hist.op = "resolve" /\ hist.effect.kind = "ApplyStatus"

OnePerType(u) ==
    \A i, j \in DOMAIN u.statuses :
        i # j => u.statuses[i].effect_type # u.statuses[j].effect_type

C12_BlockNeverNegative ==
    /\ \A i \in DOMAIN combat.players : combat.players[i].block >= 0
    /\ combat.enemy.block >= 0
    /\ hist.op = "take_damage" =>
          /\ PreUnit.block - PostUnit.block >= 0
          /\ PreUnit.block - PostUnit.block <= PreUnit.block

\* A hit larger than the block of the unit it lands on: the block is used
\* up and no more.
C12_Witness ==
    /\ hist.op = "take_damage"
    /\ ~has_status(PreUnit, "Vulnerable")
    /\ PreUnit.block > 0
    /\ hist.amount > PreUnit.block
    /\ PostUnit.block = 0
    /\ PostUnit.hp = PreUnit.hp - (hist.amount - PreUnit.block)

\* C13: one tick_statuses lowers every duration by 1 and drops exactly the
\* statuses that were at duration 1 or less: the list afterwards is the
\* statuses that had duration d > 1, in their order, with duration d - 1,
\* and holds no duration <= 0.
C13_TickStatuses ==
    hist.op = "tick_statuses" =>
        LET pre  == PreUnit.statuses
            post == PostUnit.statuses
            kept == SelectSeq(pre, LAMBDA st : st.duration > 1)
        IN  /\ Len(post) = Len(kept)
            /\ \A i \in DOMAIN kept :
                  /\ post[i].effect_type = kept[i].effect_type
                  /\ post[i].value = kept[i].value
                  /\ post[i].duration = kept[i].duration - 1
            /\ \A i \in DOMAIN post : post[i].duration > 0

\* A tick that drops a status of duration 1 next to one that stays.
C13_Witness ==
    /\ hist.op = "tick_statuses"
    /\ \E i, j \in DOMAIN PreUnit.statuses :
          /\ PreUnit.statuses[i].duration = 1
          /\ PreUnit.statuses[j].duration = 2
    /\ Len(PostUnit.statuses) = Len(PreUnit.statuses) - 1
    /\ \E i \in DOMAIN PostUnit.statuses : PostUnit.statuses[i].duration = 1

\* The largest element of a set of percents, 0 for the empty set.
Largest(S) == IF S = {} THEN 0 ELSE CHOOSE m \in S : \A x \in S : x <= m

\* C14: turn_mods.stress_resistance is the largest StressResistance percent
\* resolved since the last end_turn (0 when there was none), in whatever
\* order they were resolved, never their sum.
C14_StressResistanceMax ==
    combat.turn_mods.stress_resistance = Largest(hist.played)

\* StressResistance(30) resolved after StressResistance(50): still 50.
C14_Witness ==
    /\ hist.op = "resolve" /\ hist.effect.kind = "StressResistance"
    /\ hist.effect.amount = 30
    /\ hist.played = {30, 50}
    /\ hist.pre_mods.stress_resistance = 50
    /\ combat.turn_mods.stress_resistance = 50

\* What the claim says a conditional damage effect uses as its amount: base
\* plus bonus when the condition of its variant held before the effect.
ClaimedTotal ==
    LET e == hist.effect
        holds ==
          CASE e.kind = "DamageIfNoBlock" -> hist.pre_target.block = 0
            [] e.kind = "DamageIfLowHp" ->
                  hist.pre_player.hp
                    < (hist.pre_player.max_hp * e.threshold_percent) \div 100
            [] e.kind = "DamageIfVulnerable" ->
                  \E i \in DOMAIN hist.pre_target.statuses :
                     hist.pre_target.statuses[i].effect_type = "Vulnerable"
            [] e.kind = "DamageIfEnemyActed" -> hist.ended /\ hist.acted
    IN  IF holds THEN e.amount + e.bonus ELSE e.amount

\* The hit points and block an amount takes off the target: the amount,
\* x1.5 when the target is Vulnerable.
Landed(n) == IF has_status(hist.pre_target, "Vulnerable") THEN (3 * n) \div 2 ELSE n

IsConditional ==
    hist.op = "resolve"
    /\ hist.effect.kind \in {"DamageIfNoBlock", "DamageIfLowHp",
                             "DamageIfVulnerable", "DamageIfEnemyActed"}

\* C15: a conditional damage effect deals base + bonus exactly when its
\* condition holds (target without block; player hp below
\* max_hp * threshold_percent div 100; target Vulnerable; the latest
\* end_turn was called with enemy_acted = true) and base otherwise; for
\* DamageIfEnemyActed this amount is the one Strength and Weak then modify.
C15_ConditionalDamage ==
    IsConditional =>
        LET n == IF hist.effect.kind = "DamageIfEnemyActed"
                 THEN LET a == ClaimedTotal + StrengthOf(hist.pre_player)
                      IN  IF has_status(hist.pre_player, "Weak")
                          THEN (3 * a) \div 4 ELSE a
                 ELSE ClaimedTotal
        IN  (hist.pre_target.block + hist.pre_target.hp)
                - (combat.enemy.block + combat.enemy.hp) = Landed(n)

\* end_turn(true), then DamageIfEnemyActed{5, 5} by a player without
\* statuses on a target without Vulnerable: 10 lands.
C15_Witness ==
    /\ IsConditional /\ hist.effect.kind = "DamageIfEnemyActed"
    /\ hist.ended /\ hist.acted
    /\ hist.pre_player.statuses = <<>>
    /\ ~has_status(hist.pre_target, "Vulnerable")
    /\ (hist.pre_target.block + hist.pre_target.hp)
            - (combat.enemy.block + combat.enemy.hp) = 10

\* C16: after CombatResolver::end_turn(e) the turn modifiers have
\* stress_resistance 0, attacks_disabled false, cards_to_draw 0,
\* energy_to_gain 0 and enemy_acted_last_turn = e, whatever was resolved
\* before.
C16_EndTurnResets ==
    hist.op \in {"end_turn", "combat_end_turn"} =>
        /\ combat.turn_mods.stress_resistance = 0
        /\ combat.turn_mods.attacks_disabled = FALSE
        /\ combat.turn_mods.cards_to_draw = 0
        /\ combat.turn_mods.energy_to_gain = 0
        /\ combat.turn_mods.enemy_acted_last_turn = hist.acted

\* end_turn(true) after an effect that had changed a turn modifier.
C16_Witness ==
    /\ hist.op = "end_turn" /\ hist.acted
    /\ ~hist.pre_mods.enemy_acted_last_turn
    /\ \/ hist.pre_mods.stress_resistance > 0
       \/ hist.pre_mods.attacks_disabled
       \/ hist.pre_mods.cards_to_draw > 0
       \/ hist.pre_mods.energy_to_gain > 0
    /\ combat.turn_mods.enemy_acted_last_turn

\* The last operation rolled the intent of the enemy.
EnemyRolled == hist.op = "roll_intent" /\ hist.who = "target"

\* C17: roll_intent(turn) on an enemy without Stun stores
\* Attack(base_damage) when turn mod 4 is 0 or 3, Attack(base_damage + 2)
\* when it is 1 and Block(5) when it is 2.
C17_IntentCycle ==
    (EnemyRolled /\ ~has_status(PreUnit, "Stun")) =>
        LET pattern == hist.amount % 4
            dmg == PreUnit.base_damage
        IN  /\ pattern \in {0, 3} => PostUnit.intent = [kind |-> "Attack", amount |-> dmg]
            /\ pattern = 1 => PostUnit.intent = [kind |-> "Attack", amount |-> dmg + 2]
            /\ pattern = 2 => PostUnit.intent = [kind |-> "Block", amount |-> 5]

\* The roll of turn 5 (5 mod 4 = 1) over a stored Block intent.
C17_Witness ==
    /\ EnemyRolled /\ ~has_status(PreUnit, "Stun")
    /\ hist.amount = 5
    /\ PreUnit.intent.kind = "Block"
    /\ PostUnit.intent = [kind |-> "Attack", amount |-> PreUnit.base_damage + 2]

\* C18: on an enemy with Stun, execute_intent returns (0, 0) and leaves
\* block and base_damage alone whatever intent is stored, and roll_intent
\* stores Unknown instead of an action of the turn cycle.
C18_StunSkipsAction ==
    /\ (hist.op = "execute_intent" /\ has_status(PreUnit, "Stun")) =>
          /\ hist.ret = 0 /\ hist.amount = 0
          /\ PostUnit.block = PreUnit.block
          /\ PostUnit.base_damage = PreUnit.base_damage
    /\ (EnemyRolled /\ has_status(PreUnit, "Stun")) =>
          PostUnit.intent.kind = "Unknown"

\* A stunned enemy with a stored Block intent executes it: no block gained.
C18_Witness ==
    /\ hist.op = "execute_intent" /\ has_status(PreUnit, "Stun")
    /\ PreUnit.intent.kind = "Block"
    /\ PostUnit.block = PreUnit.block
    /\ hist.ret = 0

----------------------------------------------------------------------------
(* missions/mission.rs: Mission, MapNode, generate_branching_map           *)

MissionTypes == {"Scout", "Suppress", "Secure", "Investigate"}

\* Mission::first_mission
first_mission ==
    [id |-> "scout_dark_woods", mission_type |-> "Scout",
     region_id |-> "dark_woods", length |-> 5, difficulty |-> 1,
     reward_supplies |-> 10, reward_knowledge |-> 15, reward_influence |-> 0,
     base_stress |-> 8]

\* Mission::suppress_beasts
suppress_beasts ==
    [id |-> "suppress_beasts", mission_type |-> "Suppress",
     region_id |-> "dark_woods", length |-> 6, difficulty |-> 2,
     reward_supplies |-> 20, reward_knowledge |-> 5, reward_influence |-> 10,
     base_stress |-> 15]

\* available_missions, which load_missions falls back to: the missions.json
\* asset is not among the sources.
available_missions == << first_mission, suppress_beasts >>

MapNode(id, node_type, layer, position) ==
    [id |-> id, node_type |-> node_type, connections |-> <<>>,
     layer |-> layer, position |-> position]

\* How many nodes beyond one per layer a generated map may have: the random
\* layer widths are explored up to this many extra nodes.
MaxExtraNodes == 2

max_branches(m) == IF m.length >= 6 THEN 3 ELSE 2

\* A variant that forgets the single-node rule of the first and last layer.
NodesInLayer_any_width(m, layer) == 1..max_branches(m)

\* The values nodes_in_layer can take: gen_range(1, max_branches + 1) draws
\* from the half-open range.
NodesInLayer(m, layer) ==
    IF layer = 0 \/ layer = m.length - 1 THEN {1} ELSE 1..max_branches(m)

\* The values node_type can take in a layer: the combat roll and the rest
\* roll can each go either way.
NodeTypes(m, layer) ==
    IF layer = 0 THEN {"Event"}
    ELSE IF layer = m.length - 1
         THEN {IF m.mission_type = "Suppress" THEN "Boss" ELSE "Event"}
         ELSE {"Combat", "Event"} \cup (IF layer % 3 = 0 THEN {"Rest"} ELSE {})

RECURSIVE SeqProduct(_)
\* All sequences that take their i-th element from the i-th set.
SeqProduct(cs) ==
    IF cs = <<>> THEN {<<>>}
    ELSE {<<x>> \o t : x \in Head(cs), t \in SeqProduct(Tail(cs))}

\* The layer widths the first pass can draw (index l is layer l - 1), among
\* those with at most `extra` nodes beyond one per layer.
LayerSizes(m, extra) ==
    {s \in SeqProduct([l \in 1..m.length |-> NodesInLayer(m, l - 1)]) :
        SumSeq(s) - m.length <= extra}

\* layer_nodes: the ids of each layer, in the order they were pushed.
LayerNodes(sizes) ==
    [l \in 1..Len(sizes) |->
        [pos \in 1..sizes[l] |-> SumSeq(SubSeq(sizes, 1, l - 1)) + pos - 1]]

RECURSIVE Concat(_)
Concat(ss) == IF ss = <<>> THEN <<>> ELSE Head(ss) \o Concat(Tail(ss))

\* First pass (the loop over layers): the node lists it can build for the
\* drawn layer widths, connections still empty.
LayerPass(m, sizes) ==
    LET ln == LayerNodes(sizes)
        layers == [l \in 1..Len(sizes) |->
                    {[pos \in 1..sizes[l] |->
                        MapNode(ln[l][pos], tl[pos], l - 1, pos - 1)] :
                     tl \in SeqProduct([pos \in 1..sizes[l] |-> NodeTypes(m, l - 1)])}]
    IN  {Concat(ls) : ls \in SeqProduct(layers)}

\* A bug the picks could have: the picked node stays in `available`, so the
\* second pick can repeat the first.
Picks_with_repeats(next_layer) ==
    {<<next_layer[a]>> : a \in DOMAIN next_layer}
    \cup (IF Len(next_layer) = 1 THEN {}
          ELSE {<<next_layer[p[1]], next_layer[p[2]]>> :
                    p \in (DOMAIN next_layer) \X (DOMAIN next_layer)})

\* The connection lists one node can draw: num_connections is 1 when the next
\* layer has one node and 1 or 2 otherwise, and each pick removes its node
\* from `available`, so a list never repeats a node.
Picks(next_layer) ==
    {<<next_layer[a]>> : a \in DOMAIN next_layer}
    \cup (IF Len(next_layer) = 1 THEN {}
          ELSE {<<next_layer[p[1]], next_layer[p[2]]>> :
                    p \in {q \in (DOMAIN next_layer) \X (DOMAIN next_layer) :
                                q[1] # q[2]}})

has_incoming(conn, current_layer, next_node) ==
    \E i \in DOMAIN current_layer : next_node \in Range(conn[i])

\* A variant of the repair loop that never adds a connection.
RepairPass_skipped(conn, current_layer, next_layer, k) == {conn}

RECURSIVE RepairPass(_, _, _, _)
\* The repair loop from the k-th node of the next layer on: a node without
\* an incoming connection gets one from a random node of the current layer.
\* conn[i] is the connection list of current_layer[i].
RepairPass(conn, current_layer, next_layer, k) ==
    IF k > Len(next_layer) THEN {conn}
    ELSE IF has_incoming(conn, current_layer, next_layer[k])
              \/ current_layer = <<>>
         THEN RepairPass(conn, current_layer, next_layer, k + 1)
         ELSE UNION {RepairPass([conn EXCEPT ![from] = Append(@, next_layer[k])],
                                current_layer, next_layer, k + 1) :
                        from \in DOMAIN current_layer}

\* One iteration of the connection loop: what the connection lists of the
\* current layer can be after the picks and the repair.
ConnectLayer(current_layer, next_layer) ==
    UNION {RepairPass(conn, current_layer, next_layer, 1) :
            conn \in SeqProduct([i \in DOMAIN current_layer |-> Picks(next_layer)])}

\* Second pass: the connection loop over layers 0 .. num_layers - 2.
ConnectPass(nodes, layer_nodes) ==
    LET per_layer == [l \in 1..(Len(layer_nodes) - 1) |->
                        ConnectLayer(layer_nodes[l], layer_nodes[l + 1])]
        Fill(cl) == [i \in DOMAIN nodes |->
                        IF nodes[i].layer + 1 >= Len(layer_nodes) THEN nodes[i]
                        ELSE [nodes[i] EXCEPT !.connections =
                                cl[nodes[i].layer + 1][nodes[i].position + 1]]]
    IN  {Fill(cl) : cl \in SeqProduct(per_layer)}

\* Mission::generate_branching_map: every map the random draws can produce
\* with at most `extra` nodes beyond one per layer.  A mission of length 0
\* runs neither loop and gets the empty map.
BranchingMaps(m, extra) ==
    UNION {UNION {ConnectPass(nodes, LayerNodes(sizes)) :
                    nodes \in LayerPass(m, sizes)} :
            sizes \in LayerSizes(m, extra)}

generate_branching_map(m) == BranchingMaps(m, MaxExtraNodes)

----------------------------------------------------------------------------
(* state/mission.rs: MissionState construction                             *)

\* MissionState::from_mission_with_party; map_nodes is the map that
\* generate_branching_map returned for this call.
from_mission_with_party(m, party_members, map_nodes) ==
    [mission |-> m, current_node_id |-> 0, party_members |-> party_members,
     map_nodes |-> map_nodes, visited_nodes |-> <<0>>,
     available_paths |-> <<>>, selected_path |-> 0]

\* MissionState::with_node
with_node(ms, node) == [ms EXCEPT !.current_node_id = node]

----------------------------------------------------------------------------
(* SpecMap: generate_branching_map on missions of every type and length    *)

\* The longest mission SpecMap generates a map for.
MaxLength == 6

MapMissions ==
    {[first_mission EXCEPT !.mission_type = t, !.length = n] :
        t \in MissionTypes, n \in 0..MaxLength}

MapInit ==
    /\ mode = "MissionSelect"
    /\ \E m \in MapMissions :
         select = [missions |-> <<m>>, selected_mission |-> 0,
                   party_members |-> <<>>]
    /\ mission = Nil /\ base = Nil /\ combat = Nil /\ results = Nil
    /\ event = Nil /\ recruit = Nil /\ kingdom = Nil /\ roster = Nil
    /\ hist = [op |-> "init"]

\* The selected mission gets its MissionState, and with it its map.
MapGenerate ==
    /\ mode = "MissionSelect"
    /\ LET m == select.missions[select.selected_mission + 1]
       IN  \E map \in generate_branching_map(m) :
             mission' = from_mission_with_party(m, select.party_members, map)
    /\ mode' = "Mission"
    /\ select' = Nil
    /\ hist' = [op |-> "generate"]
    /\ UNCHANGED <<base, combat, results, event, recruit, kingdom, roster>>

MapNext == MapGenerate

SpecMap == MapInit /\ [][MapNext]_vars

----------------------------------------------------------------------------
(* Properties of SpecMap                                                    *)

Generated == mode = "Mission" /\ hist.op = "generate"

NodesOfLayer(map, layer) == {i \in DOMAIN map : map[i].layer = layer}

RECURSIVE ReachableIds(_, _)
\* The ids reachable from the ids in `seen` along connections.
ReachableIds(map, seen) ==
    LET more == seen \cup UNION {Range(map[i].connections) :
                                    i \in {j \in DOMAIN map : map[j].id \in seen}}
    IN  IF more = seen THEN seen ELSE ReachableIds(map, more)

\* C4: for a mission of length >= 2, every node outside the last layer of
\* the generated map has an outgoing connection, every node outside layer 0
\* has an incoming connection from the previous layer, and every node is
\* reachable from node 0.
C4_NoOrphans ==
    (Generated /\ mission.mission.length >= 2) =>
        LET map == mission.map_nodes
            last == mission.mission.length - 1
        IN  /\ \A i \in DOMAIN map :
                 map[i].layer # last => map[i].connections # <<>>
            /\ \A i \in DOMAIN map :
                 map[i].layer # 0 =>
                    \E j \in NodesOfLayer(map, map[i].layer - 1) :
                        map[i].id \in Range(map[j].connections)
            /\ ReachableIds(map, {0}) = {map[i].id : i \in DOMAIN map}

\* A map in which one node holds three connections: the picks give a node at
\* most two, so the repair loop added the third to feed a three-node layer.
C4_Witness ==
    /\ Generated
    /\ mission.mission.length >= 2
    /\ \E i \in DOMAIN mission.map_nodes :
         /\ Len(mission.map_nodes[i].connections) = 3
         /\ Cardinality(NodesOfLayer(mission.map_nodes,
                                     mission.map_nodes[i].layer + 1)) = 3

EntryAndExit(map, m) ==
    /\ \E i \in DOMAIN map :
         /\ NodesOfLayer(map, 0) = {i}
         /\ map[i].node_type = "Event"
    /\ \E i \in DOMAIN map :
         /\ NodesOfLayer(map, m.length - 1) = {i}
         /\ map[i].connections = <<>>

FinalType(map, m) ==
    LET i == CHOOSE j \in DOMAIN map : map[j].layer = m.length - 1
    IN  map[i].node_type

\* C5 as stated: for a mission of length >= 1 the map has exactly one node
\* in layer 0, of type Event, and exactly one node in the final layer, with
\* no outgoing connection and of type Boss for Suppress and Event otherwise.
C5_EntryAndBoss ==
    (Generated /\ mission.mission.length >= 1) =>
        /\ EntryAndExit(mission.map_nodes, mission.mission)
        /\ FinalType(mission.map_nodes, mission.mission)
             = IF mission.mission.mission_type = "Suppress" THEN "Boss" ELSE "Event"

\* C5 amended: the single entry and the single terminal node hold from
\* length 1 on; the terminal node is a Boss only for a Suppress mission of
\* length >= 2, and an Event in every other case (at length 1 it is the
\* entry node).
C5_EntryAndBossFromLength2 ==
    (Generated /\ mission.mission.length >= 1) =>
        /\ EntryAndExit(mission.map_nodes, mission.mission)
        /\ FinalType(mission.map_nodes, mission.mission)
             = IF mission.mission.mission_type = "Suppress"
                    /\ mission.mission.length >= 2
               THEN "Boss" ELSE "Event"

\* A Suppress map with a branching middle layer that ends in its Boss.
C5_Witness ==
    /\ Generated
    /\ mission.mission.mission_type = "Suppress"
    /\ mission.mission.length >= 3
    /\ Cardinality(NodesOfLayer(mission.map_nodes, 1)) >= 2
    /\ FinalType(mission.map_nodes, mission.mission) = "Boss"

\* C39: in every generated map the ids are pairwise distinct and equal to
\* the node's index in the list, every connection of a node in layer L is
\* the id of a node in layer L + 1, and no node lists a target twice.
C39_LayeredDag ==
    Generated =>
        LET map == mission.map_nodes
        IN  /\ \A i \in DOMAIN map : map[i].id = i - 1
            /\ \A i, j \in DOMAIN map : map[i].id = map[j].id => i = j
            /\ \A i \in DOMAIN map : \A c \in DOMAIN map[i].connections :
                 \E j \in DOMAIN map :
                    /\ map[j].id = map[i].connections[c]
                    /\ map[j].layer = map[i].layer + 1
            /\ \A i \in DOMAIN map : \A c, d \in DOMAIN map[i].connections :
                 map[i].connections[c] = map[i].connections[d] => c = d

\* A map in which a node of a two-node layer picked both nodes of the next
\* layer, the higher id first.
C39_Witness ==
    /\ Generated
    /\ \E i \in DOMAIN mission.map_nodes :
         LET n == mission.map_nodes[i]
         IN  /\ Len(n.connections) = 2
             /\ n.connections[1] > n.connections[2]
             /\ n.position = 1

\* C19 as stated: the map generated for a mission of length 0 is a single
\* node without outgoing connections.
C19_ZeroLengthSingleNode ==
    (Generated /\ mission.mission.length = 0) =>
        /\ Len(mission.map_nodes) = 1
        /\ mission.map_nodes[1].connections = <<>>

----------------------------------------------------------------------------
(* kingdom/: Adventurer, Roster, Party, KingdomState                       *)

\* Option<usize>::None for a selection index.
NoSelection == NoCard

\* Adventurer::new.  Fields no handler modelled here reads (level, xp,
\* traits, injuries, traumas, deck additions, kills) are left out; the id
\* stands for the string uuid_simple returns.
Adventurer(id, name, class) ==
    LET base_hp == CASE class = "Soldier" -> 45
                     [] class = "Scout" -> 35
                     [] class = "Healer" -> 30
                     [] OTHER -> 32
    IN  [id |-> id, name |-> name, class |-> class, hp |-> base_hp,
         max_hp |-> base_hp, stress |-> 0, missions_completed |-> 0]

\* Roster::starter
RosterStarter ==
    LET advs == << Adventurer("adv_1", "Marcus", "Soldier"),
                   Adventurer("adv_2", "Elena", "Scout"),
                   Adventurer("adv_3", "Brother Aldric", "Healer") >>
    IN  [adventurers |-> [i \in DOMAIN advs |-> [advs[i] EXCEPT !.stress = 10]],
         graveyard |-> <<>>]

\* Index (1-based) of the first adventurer with this id, 0 when there is none.
RosterFind(r, id) ==
    IF \E i \in DOMAIN r.adventurers : r.adventurers[i].id = id
    THEN CHOOSE i \in DOMAIN r.adventurers :
            /\ r.adventurers[i].id = id
            /\ \A j \in 1..(i - 1) : r.adventurers[j].id # id
    ELSE 0

\* Roster::record_death
record_death(r, id) ==
    LET pos == RosterFind(r, id)
    IN  IF pos = 0 THEN r
        ELSE [adventurers |-> RemoveAt(r.adventurers, pos),
              graveyard |-> Append(r.graveyard, r.adventurers[pos])]

\* Roster::add
roster_add(r, adv) == [r EXCEPT !.adventurers = Append(@, adv)]

MAX_PARTY_SIZE == 4

\* Party::with_leader
with_leader(leader_id) == [member_ids |-> <<leader_id>>]

\* Party::new
PartyNew == [member_ids |-> <<>>]

party_contains(party, id) == id \in Range(party.member_ids)

is_full(party) == Len(party.member_ids) >= MAX_PARTY_SIZE

\* A bug add_member could have: the capacity is not consulted.
add_member_unbounded(party, id) ==
    IF party_contains(party, id) THEN party
    ELSE [member_ids |-> Append(party.member_ids, id)]

\* Party::add_member: the value returned.
add_member_returns(party, id) == ~(is_full(party) \/ party_contains(party, id))

\* Party::remove_member: the value returned.
remove_member_returns(party, id) == party_contains(party, id)

\* Party::add_member
add_member(party, id) ==
    IF is_full(party) \/ party_contains(party, id) THEN party
    ELSE [member_ids |-> Append(party.member_ids, id)]

\* Party::remove_member
remove_member(party, id) ==
    IF party_contains(party, id)
    THEN [member_ids |-> RemoveAt(party.member_ids,
                            CHOOSE i \in DOMAIN party.member_ids :
                                party.member_ids[i] = id)]
    ELSE party

\* PartyMemberState::from_adventurer
from_adventurer(adv) ==
    [id |-> adv.id, name |-> adv.name, hp |-> adv.hp, max_hp |-> adv.max_hp,
     stress |-> adv.stress]

Building(id, built, cost_gold, cost_supplies) ==
    [id |-> id, built |-> built, level |-> IF built THEN 1 ELSE 0,
     cost_gold |-> cost_gold, cost_supplies |-> cost_supplies]

\* Building::all_starter
all_starter ==
    << Building("infirmary", FALSE, 50, 20), Building("chapel", FALSE, 50, 10),
       Building("foundry", FALSE, 100, 50), Building("guild_hall", TRUE, 150, 50),
       Building("watchtowers", FALSE, 80, 40) >>

\* KingdomState::default
KingdomDefault ==
    [stats |-> [gold |-> 100, security |-> 30, morale |-> 50, supplies |-> 50,
                knowledge |-> 10, influence |-> 20],
     day |-> 1, buildings |-> all_starter]

has_building(k, id) ==
    \E i \in DOMAIN k.buildings : k.buildings[i].id = id /\ k.buildings[i].built

----------------------------------------------------------------------------
(* Frame input and transitions                                              *)

\* One frame of input: the keys is_key_pressed reports, and the index of the
\* card, row or node a left click landed on (NoSelection when there was no
\* click or it hit nothing; the hit boxes of one screen do not overlap).
Input(keys, click) == [keys |-> keys, click |-> click]

DigitKey(i) == <<"Key1", "Key2", "Key3", "Key4", "Key5",
                 "Key6", "Key7", "Key8", "Key9">>[i + 1]

\* Option<StateTransition>: None, or a variant with its payload.
NoTransition == [kind |-> "None", payload |-> Nil]

Transition(kind, payload) == [kind |-> kind, payload |-> payload]

----------------------------------------------------------------------------
(* state/mission_select.rs and state/base.rs                               *)

\* load_missions: the fallback list.
load_missions == available_missions

\* MissionSelectState::for_party
for_party(party, r) ==
    LET found == SelectSeq(party.member_ids, LAMBDA id : RosterFind(r, id) # 0)
    IN  [missions |-> load_missions, selected_mission |-> 0,
         party_members |-> [i \in DOMAIN found |->
            from_adventurer(r.adventurers[RosterFind(r, found[i])])]]

\* BaseState::default
BaseDefault ==
    [selected_building |-> NoSelection, selected_adventurer |-> NoSelection,
     focus |-> "Roster", viewing_deck |-> FALSE, forming_party |-> PartyNew]

RECURSIVE BaseRosterLoop(_, _, _, _)
\* The selection loop of the Roster focus, from index i on.
BaseRosterLoop(b, r, inp, i) ==
    IF i >= Min(Len(r.adventurers), 9) THEN b
    ELSE LET b1 == IF DigitKey(i) \in inp.keys
                   THEN [b EXCEPT !.selected_adventurer = i,
                                  !.selected_building = NoSelection]
                   ELSE b
             b2 == IF inp.click # i THEN b1
                   ELSE IF b1.selected_adventurer = i
                        THEN [b1 EXCEPT !.forming_party =
                                            with_leader(r.adventurers[i + 1].id),
                                        !.focus = "PartyFormation"]
                        ELSE [b1 EXCEPT !.selected_adventurer = i,
                                        !.selected_building = NoSelection]
         IN  BaseRosterLoop(b2, r, inp, i + 1)

\* A bug try_construct_building could have: only the gold is checked.
try_construct_building_gold_only(k, idx) ==
    IF idx + 1 \in DOMAIN k.buildings
       /\ ~k.buildings[idx + 1].built
       /\ k.stats.gold >= k.buildings[idx + 1].cost_gold
    THEN [k EXCEPT !.stats.gold = @ - k.buildings[idx + 1].cost_gold,
                   !.stats.supplies = @ - k.buildings[idx + 1].cost_supplies,
                   !.buildings[idx + 1].built = TRUE,
                   !.buildings[idx + 1].level = 1]
    ELSE k

\* BaseState::try_construct_building
try_construct_building(k, idx) ==
    IF idx + 1 \in DOMAIN k.buildings
       /\ ~k.buildings[idx + 1].built
       /\ k.stats.gold >= k.buildings[idx + 1].cost_gold
       /\ k.stats.supplies >= k.buildings[idx + 1].cost_supplies
    THEN [k EXCEPT !.stats.gold = @ - k.buildings[idx + 1].cost_gold,
                   !.stats.supplies = @ - k.buildings[idx + 1].cost_supplies,
                   !.buildings[idx + 1].built = TRUE,
                   !.buildings[idx + 1].level = 1]
    ELSE k

RECURSIVE BaseBuildingsLoop(_, _, _, _)
\* The selection loop of the Buildings focus, from index i on; bk is the
\* pair of BaseState and KingdomState.
BaseBuildingsLoop(bk, inp, i, n) ==
    IF i >= n THEN bk
    ELSE LET b1 == IF DigitKey(i) \in inp.keys
                   THEN [bk.b EXCEPT !.selected_building = i,
                                     !.selected_adventurer = NoSelection]
                   ELSE bk.b
             bk2 == IF inp.click # i THEN [b |-> b1, k |-> bk.k]
                    ELSE IF b1.selected_building = i
                         THEN [b |-> b1, k |-> try_construct_building(bk.k, i)]
                         ELSE [b |-> [b1 EXCEPT !.selected_building = i,
                                                !.selected_adventurer = NoSelection],
                               k |-> bk.k]
         IN  BaseBuildingsLoop(bk2, inp, i + 1, n)

RECURSIVE BasePartyLoop(_, _, _, _)
\* The toggle loop of the PartyFormation focus, from index i on.
BasePartyLoop(b, r, inp, i) ==
    IF i >= Min(Len(r.adventurers), 9) THEN b
    ELSE LET id == r.adventurers[i + 1].id
             b1 == IF ~(DigitKey(i) \in inp.keys \/ inp.click = i) THEN b
                   ELSE IF party_contains(b.forming_party, id)
                        THEN IF b.forming_party.member_ids[1] # id
                             THEN [b EXCEPT !.forming_party = remove_member(@, id)]
                             ELSE b
                        ELSE IF ~is_full(b.forming_party)
                             THEN [b EXCEPT !.forming_party = add_member(@, id)]
                             ELSE b
         IN  BasePartyLoop(b1, r, inp, i + 1)

\* Adventurer::heal and Adventurer::reduce_stress on roster entry i.
adventurer_heal(adv, amount) == [adv EXCEPT !.hp = Min(@ + amount, adv.max_hp)]

adventurer_reduce_stress(adv, amount) == [adv EXCEPT !.stress = Max(@ - amount, 0)]

\* The Roster actions on the selected adventurer (D, M, H, T); bkr is the
\* triple of BaseState, KingdomState and Roster.
BaseRosterActions(bkr, inp) ==
    LET idx == bkr.b.selected_adventurer
        adv == bkr.r.adventurers[idx + 1]
        b1 == IF "D" \in inp.keys THEN [bkr.b EXCEPT !.viewing_deck = TRUE] ELSE bkr.b
        b2 == IF "M" \in inp.keys
              THEN [b1 EXCEPT !.forming_party = with_leader(adv.id),
                              !.focus = "PartyFormation"]
              ELSE b1
        healed == "H" \in inp.keys /\ has_building(bkr.k, "infirmary")
                  /\ bkr.k.stats.supplies >= 10 /\ adv.hp < adv.max_hp
        k1 == IF healed THEN [bkr.k EXCEPT !.stats.supplies = @ - 10] ELSE bkr.k
        r1 == IF healed
              THEN [bkr.r EXCEPT !.adventurers[idx + 1] = adventurer_heal(@, 10)]
              ELSE bkr.r
        rested == "T" \in inp.keys /\ has_building(k1, "chapel")
                  /\ k1.stats.supplies >= 10 /\ r1.adventurers[idx + 1].stress > 0
        k2 == IF rested THEN [k1 EXCEPT !.stats.supplies = @ - 10] ELSE k1
        r2 == IF rested
              THEN [r1 EXCEPT !.adventurers[idx + 1] = adventurer_reduce_stress(@, 20)]
              ELSE r1
    IN  IF idx # NoSelection /\ idx < Len(bkr.r.adventurers)
        THEN [b |-> b2, k |-> k2, r |-> r2]
        ELSE bkr

BaseResult(b, k, r, t) == [b |-> b, k |-> k, r |-> r, t |-> t]

\* BaseState::update
BaseUpdate(b, k, r, inp) ==
    IF b.viewing_deck
    THEN BaseResult(IF "Escape" \in inp.keys
                    THEN [b EXCEPT !.viewing_deck = FALSE] ELSE b,
                    k, r, NoTransition)
    ELSE
    LET b0 == IF "Tab" \in inp.keys /\ b.focus # "PartyFormation"
              THEN [b EXCEPT !.focus = IF b.focus = "Roster" THEN "Buildings"
                                       ELSE "Roster",
                             !.viewing_deck = FALSE]
              ELSE b
        roster_focus ==
            BaseRosterActions([b |-> BaseRosterLoop(b0, r, inp, 0), k |-> k, r |-> r],
                              inp)
        buildings_loop ==
            BaseBuildingsLoop([b |-> b0, k |-> k], inp, 0, Min(Len(k.buildings), 9))
        buildings_focus ==
            [b |-> buildings_loop.b,
             k |-> IF "Enter" \in inp.keys
                      /\ buildings_loop.b.selected_building # NoSelection
                   THEN try_construct_building(buildings_loop.k,
                                               buildings_loop.b.selected_building)
                   ELSE buildings_loop.k,
             r |-> r]
        party_loop == BasePartyLoop(b0, r, inp, 0)
        launch == "Enter" \in inp.keys /\ party_loop.forming_party.member_ids # <<>>
        party_focus ==
            [b |-> IF ~launch /\ "Escape" \in inp.keys
                   THEN [party_loop EXCEPT !.forming_party = PartyNew,
                                           !.focus = "Roster"]
                   ELSE party_loop,
             k |-> k, r |-> r]
        after == CASE b0.focus = "Roster" -> roster_focus
                   [] b0.focus = "Buildings" -> buildings_focus
                   [] OTHER -> party_focus
    IN  IF b0.focus = "PartyFormation" /\ launch
        THEN BaseResult(after.b, k, r,
                Transition("ToMissionSelect", for_party(after.b.forming_party, r)))
        ELSE IF after.b.focus # "PartyFormation" /\ "R" \in inp.keys
                /\ has_building(after.k, "guild_hall")
             THEN BaseResult(after.b, after.k, after.r, Transition("ToRecruit", Nil))
             ELSE BaseResult(after.b, after.k, after.r, NoTransition)

RECURSIVE DigitSelect(_, _, _, _)
\* A number-key loop: the selection after keys Key1 .. Key<n> were looked at
\* in order, starting from index i.
DigitSelect(sel, inp, i, n) ==
    IF i >= n THEN sel
    ELSE DigitSelect(IF DigitKey(i) \in inp.keys THEN i ELSE sel, inp, i + 1, n)

\* Up/W then Down/S on a list of n entries.
ArrowSelect(sel, inp, up, down, n) ==
    LET s1 == IF inp.keys \cap up # {} /\ sel > 0 THEN sel - 1 ELSE sel
    IN  IF inp.keys \cap down # {} /\ s1 < Max(n - 1, 0) THEN s1 + 1 ELSE s1

\* MissionSelectState::update.  Both missions of the fallback list carry
\* UnlockRequirement::None, which is always met.
MissionSelectUpdate(sl, inp, map_of) ==
    LET s1 == ArrowSelect(sl.selected_mission, inp, {"Up", "W"}, {"Down", "S"},
                          Len(sl.missions))
        s2 == DigitSelect(s1, inp, 0, Min(Len(sl.missions), 9))
        sl2 == [sl EXCEPT !.selected_mission = s2]
    IN  IF "Enter" \in inp.keys /\ s2 < Len(sl.missions) /\ sl.party_members # <<>>
        THEN [s |-> sl2,
              t |-> Transition("ToMission",
                        from_mission_with_party(sl.missions[s2 + 1],
                                                sl.party_members, map_of))]
        ELSE IF "Escape" \in inp.keys
             THEN [s |-> sl2, t |-> Transition("ToBase", Nil)]
             ELSE [s |-> sl2, t |-> NoTransition]

----------------------------------------------------------------------------
(* state/results.rs                                                        *)

NoValue == [some |-> FALSE, value |-> 0]

Some(v) == [some |-> TRUE, value |-> v]

\* ResultState::victory_for
victory_for(adventurer_id) ==
    [victory |-> TRUE, stress_gained |-> 5, hp_lost |-> 0,
     adventurer_id |-> adventurer_id, final_hp |-> NoValue, final_stress |-> NoValue]

\* ResultState::defeat_for
defeat_for(adventurer_id) ==
    [victory |-> FALSE, stress_gained |-> 15, hp_lost |-> 20,
     adventurer_id |-> adventurer_id, final_hp |-> NoValue, final_stress |-> NoValue]

\* ResultState::victory_for_party and defeat_for_party are called by the
\* mission and combat states but are not among the sources; they are taken
\* to build the leader's victory and defeat results.
victory_for_party(party_members) ==
    victory_for(IF party_members = <<>> THEN "" ELSE party_members[1].id)

defeat_for_party(party_members) ==
    defeat_for(IF party_members = <<>> THEN "" ELSE party_members[1].id)

\* ResultState::update
ResultsUpdate(rs, k, r, inp) ==
    IF "Enter" \notin inp.keys THEN [k |-> k, r |-> r, t |-> NoTransition]
    ELSE
    LET k1 == IF rs.victory
              THEN [k EXCEPT !.stats.gold = @ + 20, !.stats.supplies = @ + 10,
                             !.stats.knowledge = @ + 5]
              ELSE [k EXCEPT !.stats.morale = @ - 10]
        is_dead == rs.final_hp.some /\ rs.final_hp.value <= 0
        pos == RosterFind(r, rs.adventurer_id)
        Apply(adv) ==
            [adv EXCEPT
                !.hp = IF rs.final_hp.some THEN Max(rs.final_hp.value, 1)
                       ELSE Max(adv.hp - rs.hp_lost, 1),
                !.stress = IF rs.final_stress.some THEN Min(rs.final_stress.value, 100)
                           ELSE Min(adv.stress + rs.stress_gained, 100),
                !.missions_completed = IF rs.victory THEN @ + 1 ELSE @]
        r1 == IF is_dead THEN record_death(r, rs.adventurer_id)
              ELSE IF pos # 0 THEN [r EXCEPT !.adventurers[pos] = Apply(@)]
              ELSE r
    IN  [k |-> k1, r |-> r1, t |-> Transition("ToBase", Nil)]

----------------------------------------------------------------------------
(* state/recruit.rs                                                        *)

\* Recruit::random: the cost of a class.
recruit_cost(class) ==
    CASE class = "Soldier" -> 50 [] class = "Scout" -> 40
      [] class = "Healer" -> 60 [] OTHER -> 70

\* RecruitState::new; names and ids are the three random names and the three
\* ids the calls of Adventurer::new drew.
RecruitNew(names, ids) ==
    LET classes == <<"Soldier", "Scout", "Healer">>
    IN  [recruits |-> [i \in 1..3 |->
                        [adventurer |-> Adventurer(ids[i], names[i], classes[i]),
                         cost |-> recruit_cost(classes[i])]],
         selected |-> 0]

\* RecruitState::update
RecruitUpdate(rc, k, r, inp) ==
    LET s1 == ArrowSelect(rc.selected, inp, {"Up", "W"}, {"Down", "S"},
                          Len(rc.recruits))
        s2 == DigitSelect(s1, inp, 0, Min(Len(rc.recruits), 3))
        hire == "Enter" \in inp.keys /\ s2 < Len(rc.recruits)
                /\ k.stats.gold >= rc.recruits[s2 + 1].cost
        left == RemoveAt(rc.recruits, s2 + 1)
        rc1 == IF hire
               THEN [recruits |-> left,
                     selected |-> IF s2 >= Len(left) /\ s2 > 0 THEN s2 - 1 ELSE s2]
               ELSE [rc EXCEPT !.selected = s2]
        k1 == IF hire THEN [k EXCEPT !.stats.gold = @ - rc.recruits[s2 + 1].cost]
              ELSE k
        r1 == IF hire THEN roster_add(r, rc.recruits[s2 + 1].adventurer) ELSE r
    IN  [rc |-> rc1, k |-> k1, r |-> r1,
         t |-> IF "Escape" \in inp.keys THEN Transition("ToBase", Nil)
               ELSE NoTransition]

----------------------------------------------------------------------------
(* missions/events.rs and state/event.rs                                   *)

Outcome(kind, amount) == [kind |-> kind, amount |-> amount]

\* Event::twisted_path
twisted_path ==
    [id |-> "twisted_path",
     choices |-> << <<Outcome("Stress", 5), Outcome("SkipNode", 0)>>,
                    <<Outcome("Combat", 0)>>,
                    <<Outcome("Stress", 10), Outcome("Knowledge", 5)>> >>]

\* Event::ancient_marker
ancient_marker ==
    [id |-> "ancient_marker",
     choices |-> << <<Outcome("Stress", 5), Outcome("RevealTrait", 0)>>,
                    <<Outcome("Nothing", 0)>> >>]

\* Event::forest_shrine
forest_shrine ==
    [id |-> "forest_shrine",
     choices |-> << <<Outcome("Stress", -10)>>,
                    <<Outcome("Supplies", 10), Outcome("Stress", 5)>> >>]

NoEvent == [id |-> "", choices |-> <<>>]

\* random_event: keyed by the node index alone.
random_event(node) ==
    CASE node = 0 -> twisted_path
      [] node = 2 -> ancient_marker
      [] node = 4 -> forest_shrine
      [] OTHER -> NoEvent

\* EventState::new followed by with_mission_context
EventWithContext(ev, leader, m, current_node, party_members) ==
    [event |-> ev, selected_choice |-> 0, adventurer_id |-> leader.id,
     return_to_mission |-> FALSE, stress_change |-> 0, hp_change |-> 0,
     supplies_change |-> 0, knowledge_change |-> 0, trigger_combat |-> FALSE,
     skip_node |-> FALSE,
     mission_context |-> [mission |-> m, current_node |-> current_node,
                          party_members |-> party_members]]

RECURSIVE ApplyOutcomes(_, _)
\* The outcome loop of confirm_choice over the remaining outcomes.
ApplyOutcomes(es, outcomes) ==
    IF outcomes = <<>> THEN es
    ELSE LET o == Head(outcomes)
             es1 == CASE o.kind = "Stress" -> [es EXCEPT !.stress_change = @ + o.amount]
                      [] o.kind = "Heal" -> [es EXCEPT !.hp_change = @ + o.amount]
                      [] o.kind = "Supplies" -> [es EXCEPT !.supplies_change = @ + o.amount]
                      [] o.kind = "Knowledge" -> [es EXCEPT !.knowledge_change = @ + o.amount]
                      [] o.kind = "Combat" -> [es EXCEPT !.trigger_combat = TRUE]
                      [] o.kind = "SkipNode" -> [es EXCEPT !.skip_node = TRUE]
                      [] o.kind = "RevealTrait" -> [es EXCEPT !.knowledge_change = @ + 5]
                      [] OTHER -> es
         IN  ApplyOutcomes(es1, Tail(outcomes))

\* EventState::confirm_choice; map_of is the map the rebuilt MissionState
\* draws.  The selected index is always within the choices.
confirm_choice(es, map_of) ==
    LET es1 == [ApplyOutcomes(es, es.event.choices[es.selected_choice + 1])
                    EXCEPT !.return_to_mission = TRUE]
        ctx == es.mission_context
        updated_members ==
            [i \in DOMAIN ctx.party_members |->
                [ctx.party_members[i] EXCEPT
                    !.hp = Max(Min(@ + es1.hp_change, ctx.party_members[i].max_hp), 0),
                    !.stress = Max(Min(@ + es1.stress_change, 100), 0)]]
    IN  IF ctx # Nil
        THEN [e |-> es1,
              t |-> Transition("ToMission",
                        with_node(from_mission_with_party(ctx.mission,
                                                          updated_members, map_of),
                                  ctx.current_node))]
        ELSE [e |-> es1, t |-> Transition("ToBase", Nil)]

RECURSIVE EventChoiceLoop(_, _, _, _)
\* The number-key and click loop of EventState::update from index i on;
\* `confirmed` tells that a click on the selected choice ended the loop.
EventChoiceLoop(es, inp, i, n) ==
    IF i >= n THEN [e |-> es, confirmed |-> FALSE]
    ELSE IF i >= 5 THEN EventChoiceLoop(es, inp, i + 1, n)
    ELSE LET es1 == IF DigitKey(i) \in inp.keys
                    THEN [es EXCEPT !.selected_choice = i] ELSE es
         IN  IF inp.click = i
             THEN IF es1.selected_choice = i
                  THEN [e |-> es1, confirmed |-> TRUE]
                  ELSE EventChoiceLoop([es1 EXCEPT !.selected_choice = i],
                                       inp, i + 1, n)
             ELSE EventChoiceLoop(es1, inp, i + 1, n)

\* EventState::update
EventUpdate(es, inp, map_of) ==
    LET n == Len(es.event.choices)
        es1 == [es EXCEPT !.selected_choice =
                    ArrowSelect(@, inp, {"Up", "W"}, {"Down", "S"}, n)]
        looped == EventChoiceLoop(es1, inp, 0, Min(n, 9))
    IN  IF looped.confirmed \/ "Enter" \in inp.keys
        THEN confirm_choice(looped.e, map_of)
        ELSE [e |-> looped.e, t |-> NoTransition]

----------------------------------------------------------------------------
(* state/combat.rs: for_mission; state/mission.rs: MissionState::update    *)

\* random_enemy_for_difficulty: the enemies.json asset is not among the
\* sources, so load_all fails and the fallback enemy is returned.
random_enemy_for_difficulty(difficulty) == new_enemy("Forest Beast", ForestBeastHp)

\* CombatState::for_mission.  The context is the MissionContext of
\* state/combat.rs: mission, current_node and party_members.
for_mission(context) ==
    [DefaultCombatState EXCEPT
        !.players = [i \in DOMAIN context.party_members |->
                        [new_player(context.party_members[i].name,
                                    context.party_members[i].max_hp)
                            EXCEPT !.hp = context.party_members[i].hp,
                                   !.stress = context.party_members[i].stress]],
        !.enemy = random_enemy_for_difficulty(context.mission.difficulty),
        !.return_mission = context,
        !.damage_taken = [i \in DOMAIN context.party_members |-> 0],
        !.stress_gained = [i \in DOMAIN context.party_members |-> 0]]

\* MissionState::current_node: index of the first node with the current id,
\* 0 when there is none.
current_node(ms) ==
    IF \E i \in DOMAIN ms.map_nodes : ms.map_nodes[i].id = ms.current_node_id
    THEN CHOOSE i \in DOMAIN ms.map_nodes :
            /\ ms.map_nodes[i].id = ms.current_node_id
            /\ \A j \in 1..(i - 1) : ms.map_nodes[j].id # ms.current_node_id
    ELSE 0

\* MissionState::is_complete
is_complete(ms) ==
    current_node(ms) # 0 /\ ms.map_nodes[current_node(ms)].connections = <<>>

\* The Rest branch of process_current_node.
rest_party(party_members) ==
    [i \in DOMAIN party_members |->
        [party_members[i] EXCEPT
            !.hp = Min(@ + TruncDiv(party_members[i].max_hp, 10),
                       party_members[i].max_hp),
            !.stress = Max(@ - 5, 0)]]

MissionStep(ms, t) == [m |-> ms, t |-> t]

\* MissionState::process_current_node
process_current_node(ms) ==
    IF current_node(ms) = 0 THEN MissionStep(ms, NoTransition)
    ELSE
    LET node == ms.map_nodes[current_node(ms)]
        ev == random_event(ms.current_node_id)
    IN  CASE node.node_type \in {"Combat", "Boss"} ->
                MissionStep(ms, Transition("ToCombat",
                    for_mission([mission |-> ms.mission,
                                 current_node |-> ms.current_node_id,
                                 party_members |-> ms.party_members])))
          [] node.node_type = "Event" ->
                IF ev # NoEvent /\ ms.party_members # <<>>
                THEN MissionStep(ms, Transition("ToEvent",
                        EventWithContext(ev, ms.party_members[1], ms.mission,
                                         ms.current_node_id, ms.party_members)))
                ELSE MissionStep(ms, NoTransition)
          [] OTHER ->
                MissionStep([ms EXCEPT !.party_members = rest_party(@)],
                            NoTransition)

\* The victory ResultState a completed mission builds.
MissionVictory(ms) ==
    Transition("ToResults",
        [victory_for_party(ms.party_members) EXCEPT
            !.stress_gained = ms.mission.base_stress])

\* What one call of update did: the MissionState left behind, the transition
\* returned, and which branch ran (op) for the node entered (entered, or
\* NoSelection).
MissionResult(ms, t, op, entered) ==
    [m |-> ms, t |-> t, op |-> op, entered |-> entered]

\* A variant that leaves the path choice open after the confirm.
ConfirmPath_keeps_choice(ms, node_id) ==
    LET ms1 == [ms EXCEPT !.current_node_id = node_id,
                          !.visited_nodes = Append(@, node_id)]
        p == process_current_node(ms1)
    IN  IF p.t.kind # "None" THEN MissionResult(p.m, p.t, "confirm", node_id)
        ELSE IF is_complete(p.m)
             THEN MissionResult(p.m, MissionVictory(p.m), "confirm", node_id)
             ELSE MissionResult(p.m, NoTransition, "confirm", node_id)

\* Confirming a path: the node is entered and processed, and a node without
\* connections completes the mission.
ConfirmPath(ms, node_id) ==
    LET ms1 == [ms EXCEPT !.current_node_id = node_id,
                          !.visited_nodes = Append(@, node_id),
                          !.available_paths = <<>>,
                          !.selected_path = 0]
        p == process_current_node(ms1)
    IN  IF p.t.kind # "None" THEN MissionResult(p.m, p.t, "confirm", node_id)
        ELSE IF is_complete(p.m)
             THEN MissionResult(p.m, MissionVictory(p.m), "confirm", node_id)
             ELSE MissionResult(p.m, NoTransition, "confirm", node_id)

\* The Escape check that ends update.
MissionEscape(res, inp) ==
    IF res.t.kind = "None" /\ "Escape" \in inp.keys
    THEN [res EXCEPT !.t = Transition("ToBase", Nil)]
    ELSE res

\* MissionState::update, path-choice branch.
MissionChoose(ms, inp) ==
    LET n == Len(ms.available_paths)
        s1 == ArrowSelect(ms.selected_path, inp, {"Left", "A"}, {"Right", "D"}, n)
        s2 == DigitSelect(s1, inp, 0, Min(n, 3))
        ms2 == [ms EXCEPT !.selected_path = s2]
        clicked == inp.click # NoSelection /\ inp.click < n
        after_click ==
            IF ~clicked THEN MissionResult(ms2, NoTransition, "select", NoSelection)
            ELSE IF s2 = inp.click
                 THEN ConfirmPath(ms2, ms2.available_paths[inp.click + 1])
                 ELSE MissionResult([ms2 EXCEPT !.selected_path = inp.click],
                                    NoTransition, "select", NoSelection)
        m3 == after_click.m
    IN  IF after_click.t.kind # "None" THEN after_click
        ELSE IF inp.keys \cap {"Space", "Enter"} # {}
                /\ m3.selected_path < Len(m3.available_paths)
             THEN ConfirmPath(m3, m3.available_paths[m3.selected_path + 1])
             ELSE after_click

\* A variant that offers a path choice for a single connection too.
MissionAdvance_always_asks(ms, inp) ==
    IF "Space" \notin inp.keys \/ current_node(ms) = 0
    THEN MissionResult(ms, NoTransition, "none", NoSelection)
    ELSE
    LET connections == ms.map_nodes[current_node(ms)].connections
    IN  IF connections = <<>>
        THEN MissionResult(ms, MissionVictory(ms), "complete", NoSelection)
        ELSE MissionResult([ms EXCEPT !.available_paths = connections,
                                      !.selected_path = 0],
                           NoTransition, "fork", NoSelection)

\* MissionState::update, advance branch.
MissionAdvance(ms, inp) ==
    IF "Space" \notin inp.keys \/ current_node(ms) = 0
    THEN MissionResult(ms, NoTransition, "none", NoSelection)
    ELSE
    LET connections == ms.map_nodes[current_node(ms)].connections
        ms1 == [ms EXCEPT !.current_node_id = connections[1],
                          !.visited_nodes = Append(@, connections[1])]
        p == process_current_node(ms1)
    IN  CASE connections = <<>> ->
                MissionResult(ms, MissionVictory(ms), "complete", NoSelection)
          [] Len(connections) = 1 ->
                MissionResult(p.m, p.t, "auto", connections[1])
          [] OTHER ->
                MissionResult([ms EXCEPT !.available_paths = connections,
                                         !.selected_path = 0],
                              NoTransition, "fork", NoSelection)

\* MissionState::update
MissionUpdate(ms, inp) ==
    MissionEscape(IF ms.available_paths # <<>> THEN MissionChoose(ms, inp)
                  ELSE MissionAdvance(ms, inp),
                  inp)

----------------------------------------------------------------------------
(* state/combat.rs: CombatState::update                                    *)

RECURSIVE CombatCardLoop(_, _, _, _)
\* The card loop of CombatState::update from index i on; n is the hand size
\* when the loop started.
CombatCardLoop(cs, inp, i, n) ==
    IF i >= n THEN cs
    ELSE LET cs1 == IF DigitKey(i) \in inp.keys
                    THEN [cs EXCEPT !.selected_card = i] ELSE cs
             cs2 == IF inp.click # i THEN cs1
                    ELSE IF cs1.selected_card = i THEN try_play_selected_card(cs1)
                         ELSE [cs1 EXCEPT !.selected_card = i]
         IN  CombatCardLoop(cs2, inp, i + 1, n)

\* A variant that hands back the party as it entered the combat.
updated_members_stale(cs) == cs.return_mission.party_members

\* The PartyMemberState list the victory branch hands back to the mission.
updated_members(cs) ==
    LET ctx == cs.return_mission
        IdOf(name) ==
            IF \E j \in DOMAIN ctx.party_members : ctx.party_members[j].name = name
            THEN ctx.party_members[CHOOSE j \in DOMAIN ctx.party_members :
                    /\ ctx.party_members[j].name = name
                    /\ \A h \in 1..(j - 1) : ctx.party_members[h].name # name].id
            ELSE ""
    IN  [i \in DOMAIN cs.players |->
            [id |-> IdOf(cs.players[i].name), name |-> cs.players[i].name,
             hp |-> cs.players[i].hp, max_hp |-> cs.players[i].max_hp,
             stress |-> cs.players[i].stress]]

\* A bug the win/lose check could have: one dead player is a defeat.
CombatOutcome_any_dead(cs, map_of) ==
    LET ctx == cs.return_mission
        leader_id == IF cs.players = <<>> THEN "" ELSE cs.players[1].name
    IN  IF cs.enemy.hp <= 0
        THEN IF ctx # Nil
             THEN Transition("ToMission",
                    with_node(from_mission_with_party(ctx.mission,
                                                      updated_members(cs), map_of),
                              ctx.current_node))
             ELSE Transition("ToResults", victory_for(leader_id))
        ELSE IF \E i \in DOMAIN cs.players : cs.players[i].hp <= 0
             THEN IF ctx # Nil
                  THEN Transition("ToResults", defeat_for_party(ctx.party_members))
                  ELSE Transition("ToResults", defeat_for(leader_id))
             ELSE NoTransition

\* The win/lose check that ends CombatState::update.
CombatOutcome(cs, map_of) ==
    LET ctx == cs.return_mission
        leader_id == IF cs.players = <<>> THEN "" ELSE cs.players[1].name
    IN  IF cs.enemy.hp <= 0
        THEN IF ctx # Nil
             THEN Transition("ToMission",
                    with_node(from_mission_with_party(ctx.mission,
                                                      updated_members(cs), map_of),
                              ctx.current_node))
             ELSE Transition("ToResults", victory_for(leader_id))
        ELSE IF \A i \in DOMAIN cs.players : cs.players[i].hp <= 0
             THEN IF ctx # Nil
                  THEN Transition("ToResults", defeat_for_party(ctx.party_members))
                  ELSE Transition("ToResults", defeat_for(leader_id))
             ELSE NoTransition

\* CombatState::update.  A click on the End Turn button is the pseudo-key
\* "EndTurnButton".
CombatUpdate(cs, inp, map_of) ==
    The({[c |-> cs4, t |-> CombatOutcome(cs4, map_of)] :
        cs4 \in {IF "EndTurnButton" \in inp.keys THEN end_turn(cs3) ELSE cs3 :
        cs3 \in {IF "E" \in inp.keys THEN end_turn(cs2) ELSE cs2 :
        cs2 \in {IF "Enter" \in inp.keys THEN try_play_selected_card(cs1) ELSE cs1 :
        cs1 \in {CombatCardLoop(cs, inp, 0, Min(Len(cs.hand), 5))}}}}})

----------------------------------------------------------------------------
(* game.rs: Game                                                           *)

\* How many extra nodes the maps of the game's missions may have.
MaxGameExtraNodes == 1

\* How many keys one frame reports as pressed.
MaxKeys == 2

\* The last turn a combat may reach.
MaxTurns == 5

\* How many missions one behaviour launches.
MaxMissions == 1

FirstMissionMaps == BranchingMaps(first_mission, MaxGameExtraNodes)

\* The maps generate_branching_map can return when the game builds a
\* MissionState.
GameMaps(m) ==
    IF m = first_mission THEN FirstMissionMaps
    ELSE BranchingMaps(m, MaxGameExtraNodes)

\* The frames explored: at most MaxKeys of the given keys, and a click on
\* one of the given targets or none.
Frames(keys, clicks) ==
    {Input(K, c) : K \in {S \in SUBSET keys : Cardinality(S) <= MaxKeys},
                   c \in clicks \cup {NoSelection}}

\* The frames the game is driven with.
BaseFrames == Frames({"Key1", "M", "Enter", "Escape", "R"}, {})

SelectFrames == Frames({"Enter", "Escape"}, {})

GameMissionFrames == Frames({"Space", "Escape", "Right"}, {})

GameCombatFrames == Frames({"Key1", "Enter", "E"}, {})

EventFrames == Frames({"Down", "Enter"}, {})

ResultsFrames == Frames({"Enter"}, {})

RecruitFrames == Frames({"Down", "Escape"}, {})

\* The names Recruit::random draws from.
RecruitNames == {"Aldric", "Beatrix"}

\* Ids uuid_simple can hand to the three recruits of one RecruitState.
RecruitIds == <<"adv_4", "adv_5", "adv_6">>

\* No step of MissionState::update to remember.
NoPre == [node |-> 0, visited |-> <<>>, paths |-> <<>>, sel |-> 0,
          has_node |-> FALSE, connections |-> <<>>, party |-> <<>>,
          space |-> FALSE, confirm |-> FALSE, plain |-> FALSE,
          entered |-> NoSelection, entered_type |-> ""]

NoPost == [node |-> 0, visited |-> <<>>, paths |-> <<>>, sel |-> 0,
           party |-> <<>>]

\* What the last frame did: the mode it ran in, the transition it returned,
\* the branch of MissionState::update it took with the fields of the
\* MissionState before (pre) and after (post) the call, the units a won
\* combat ended with and the context it returned to, the layers the current
\* mission has entered, and the number of missions launched.
GameHist(from, t, op, pre, post, units, ctx, trail, mission_id, launched) ==
    [from |-> from, transition |-> t, op |-> op, pre |-> pre, post |-> post,
     units |-> units, ctx |-> ctx, trail |-> trail, mission_id |-> mission_id,
     launched |-> launched]

\* Game::new without a save file.
Init ==
    /\ mode = "Base"
    /\ base = BaseDefault
    /\ select = Nil /\ mission = Nil /\ combat = Nil /\ results = Nil
    /\ event = Nil /\ recruit = Nil
    /\ kingdom = KingdomDefault
    /\ roster = RosterStarter
    /\ hist = GameHist("Base", "None", "none", NoPre, NoPost, <<>>, Nil,
                       <<>>, "", 0)

\* GameState: the payload of the active variant, nothing for the others.
Activate(m, payload) ==
    /\ mode' = m
    /\ base' = IF m = "Base" THEN payload ELSE Nil
    /\ select' = IF m = "MissionSelect" THEN payload ELSE Nil
    /\ mission' = IF m = "Mission" THEN payload ELSE Nil
    /\ combat' = IF m = "Combat" THEN payload ELSE Nil
    /\ results' = IF m = "Results" THEN payload ELSE Nil
    /\ event' = IF m = "Event" THEN payload ELSE Nil
    /\ recruit' = IF m = "Recruit" THEN payload ELSE Nil

\* A variant without an arm for ToEvent: the event is dropped and the game
\* returns to the base.
transition_drops_event(t, names) ==
    CASE t.kind = "ToMissionSelect" -> Activate("MissionSelect", t.payload)
      [] t.kind = "ToMission" -> Activate("Mission", t.payload)
      [] t.kind = "ToCombat" -> Activate("Combat", t.payload)
      [] t.kind = "ToResults" -> Activate("Results", t.payload)
      [] t.kind = "ToRecruit" -> Activate("Recruit", RecruitNew(names, RecruitIds))
      [] OTHER -> Activate("Base", BaseDefault)

\* Game::transition; names are the draws of RecruitState::new.
transition(t, names) ==
    CASE t.kind = "ToBase" -> Activate("Base", BaseDefault)
      [] t.kind = "ToMissionSelect" -> Activate("MissionSelect", t.payload)
      [] t.kind = "ToMission" -> Activate("Mission", t.payload)
      [] t.kind = "ToCombat" -> Activate("Combat", t.payload)
      [] t.kind = "ToResults" -> Activate("Results", t.payload)
      [] t.kind = "ToEvent" -> Activate("Event", t.payload)
      [] t.kind = "ToRecruit" -> Activate("Recruit", RecruitNew(names, RecruitIds))

\* One arm of Game::update: the state's update ran and left `payload`
\* behind, and a returned transition is applied.
Dispatch(from, payload, t) ==
    IF t.kind = "None" THEN Activate(from, payload)
    ELSE \E names \in IF t.kind = "ToRecruit" THEN [1..3 -> RecruitNames]
                      ELSE {<<>>} : transition(t, names)

\* The history after a frame outside the Mission state.
FrameHist(from, t, units, ctx) ==
    GameHist(from, t.kind, "none", NoPre, NoPost, units, ctx,
             IF t.kind = "ToBase" THEN <<>> ELSE hist.trail,
             IF t.kind = "ToBase" THEN "" ELSE hist.mission_id,
             hist.launched)

\* GameState::Base arm of Game::update.
BaseFrame ==
    /\ mode = "Base"
    /\ \E inp \in BaseFrames :
         LET res == BaseUpdate(base, kingdom, roster, inp)
         IN  /\ Dispatch("Base", res.b, res.t)
             /\ kingdom' = res.k
             /\ roster' = res.r
             /\ hist' = FrameHist("Base", res.t, <<>>, Nil)

\* GameState::MissionSelect arm of Game::update.
MissionSelectFrame ==
    /\ mode = "MissionSelect"
    /\ \E inp \in SelectFrames :
         LET probe == MissionSelectUpdate(select, inp, <<>>)
         IN  IF probe.t.kind = "ToMission"
             THEN /\ hist.launched < MaxMissions
                  /\ \E map \in GameMaps(probe.t.payload.mission) :
                       LET res == MissionSelectUpdate(select, inp, map)
                       IN  /\ Dispatch("MissionSelect", res.s, res.t)
                           /\ hist' = GameHist("MissionSelect", "ToMission", "none",
                                        NoPre, NoPost, <<>>, Nil,
                                        IF map = <<>> THEN <<>> ELSE <<map[1].layer>>,
                                        res.t.payload.mission.id, hist.launched + 1)
             ELSE /\ Dispatch("MissionSelect", probe.s, probe.t)
                  /\ hist' = FrameHist("MissionSelect", probe.t, <<>>, Nil)
    /\ UNCHANGED <<kingdom, roster>>

\* The layer of the node with this id.
LayerOfNode(map, id) == map[CHOOSE i \in DOMAIN map : map[i].id = id].layer

\* GameState::Mission arm of Game::update, driven with the given frames.
MissionArm(frames) ==
    /\ mode = "Mission"
    /\ \E inp \in frames : \E res \in {MissionUpdate(mission, inp)} :
         LET pre == [node |-> mission.current_node_id,
                     visited |-> mission.visited_nodes,
                     paths |-> mission.available_paths,
                     sel |-> mission.selected_path,
                     has_node |-> current_node(mission) # 0,
                     connections |-> IF current_node(mission) = 0 THEN <<>>
                                     ELSE mission.map_nodes[current_node(mission)].connections,
                     party |-> mission.party_members,
                     space |-> "Space" \in inp.keys,
                     confirm |-> inp.keys \cap {"Space", "Enter"} # {},
                     plain |-> inp.click = NoSelection
                               /\ inp.keys \subseteq {"Space", "Enter", "Escape"},
                     entered |-> res.entered,
                     entered_type |->
                        IF res.entered = NoSelection THEN ""
                        ELSE mission.map_nodes[CHOOSE i \in DOMAIN mission.map_nodes :
                                mission.map_nodes[i].id = res.entered].node_type]
             post == [node |-> res.m.current_node_id,
                      visited |-> res.m.visited_nodes,
                      paths |-> res.m.available_paths,
                      sel |-> res.m.selected_path,
                      party |-> res.m.party_members]
             trail == IF res.entered = NoSelection THEN hist.trail
                      ELSE Append(hist.trail, LayerOfNode(mission.map_nodes, res.entered))
         IN  /\ Dispatch("Mission", res.m, res.t)
             /\ hist' = GameHist("Mission", res.t.kind, res.op, pre, post, <<>>, Nil,
                                 IF res.t.kind = "ToBase" THEN <<>> ELSE trail,
                                 IF res.t.kind = "ToBase" THEN "" ELSE hist.mission_id,
                                 hist.launched)
    /\ UNCHANGED <<kingdom, roster>>

MissionFrame == MissionArm(GameMissionFrames)

\* GameState::Combat arm of Game::update, driven with the given frames.
CombatArm(frames) ==
    /\ mode = "Combat"
    /\ \E inp \in frames : \E probe \in {CombatUpdate(combat, inp, <<>>)} :
         /\ probe.c.turn <= MaxTurns
         /\ IF probe.t.kind = "ToMission"
            THEN \E map \in GameMaps(combat.return_mission.mission) :
                   \E res \in {CombatUpdate(combat, inp, map)} :
                      /\ Dispatch("Combat", res.c, res.t)
                      /\ hist' = FrameHist("Combat", res.t, res.c.players,
                                           combat.return_mission)
            ELSE /\ Dispatch("Combat", probe.c, probe.t)
                 /\ hist' = FrameHist("Combat", probe.t, <<>>, Nil)
    /\ UNCHANGED <<kingdom, roster>>

CombatFrame == CombatArm(GameCombatFrames)

\* GameState::Event arm of Game::update.
EventFrame ==
    /\ mode = "Event"
    /\ \E inp \in EventFrames : \E probe \in {EventUpdate(event, inp, <<>>)} :
         IF probe.t.kind = "ToMission"
         THEN \E map \in GameMaps(event.mission_context.mission) :
                \E res \in {EventUpdate(event, inp, map)} :
                   /\ Dispatch("Event", res.e, res.t)
                   /\ hist' = FrameHist("Event", res.t, <<>>,
                                        event.mission_context)
         ELSE /\ Dispatch("Event", probe.e, probe.t)
              /\ hist' = FrameHist("Event", probe.t, <<>>, Nil)
    /\ UNCHANGED <<kingdom, roster>>

\* GameState::Results arm of Game::update.
ResultsFrame ==
    /\ mode = "Results"
    /\ \E inp \in ResultsFrames :
         LET res == ResultsUpdate(results, kingdom, roster, inp)
         IN  /\ Dispatch("Results", results, res.t)
             /\ kingdom' = res.k
             /\ roster' = res.r
             /\ hist' = FrameHist("Results", res.t, <<>>, Nil)

\* GameState::Recruit arm of Game::update.
RecruitFrame ==
    /\ mode = "Recruit"
    /\ \E inp \in RecruitFrames :
         LET res == RecruitUpdate(recruit, kingdom, roster, inp)
         IN  /\ Dispatch("Recruit", res.rc, res.t)
             /\ kingdom' = res.k
             /\ roster' = res.r
             /\ hist' = FrameHist("Recruit", res.t, <<>>, Nil)

\* Game::update
Next ==
    \/ BaseFrame
    \/ MissionSelectFrame
    \/ MissionFrame
    \/ CombatFrame
    \/ EventFrame
    \/ ResultsFrame
    \/ RecruitFrame

Spec == Init /\ [][Next]_vars

----------------------------------------------------------------------------
(* SpecMission: MissionState::update on freshly launched missions          *)

\* The frames a mission is driven with.
MissionFrames == Frames({"Space", "Enter", "Escape", "Right", "Key2"}, {0, 1})

\* The parties a mission is launched with: the leader alone, or with a
\* second member.
LaunchParties ==
    {for_party(p, RosterStarter).party_members :
        p \in {with_leader("adv_1"), add_member(with_leader("adv_1"), "adv_2")}}

\* A mission launched from the mission select screen.
MissionInit ==
    /\ mode = "Mission"
    /\ \E i \in DOMAIN available_missions :
         \E members \in LaunchParties :
           \E map \in GameMaps(available_missions[i]) :
              /\ mission = from_mission_with_party(available_missions[i],
                                                   members, map)
              /\ hist = GameHist("MissionSelect", "ToMission", "none", NoPre,
                                 NoPost, <<>>, Nil, <<0>>,
                                 available_missions[i].id, 1)
    /\ base = Nil /\ select = Nil /\ combat = Nil /\ results = Nil
    /\ event = Nil /\ recruit = Nil
    /\ kingdom = KingdomDefault
    /\ roster = RosterStarter

MissionRun == MissionArm(MissionFrames)

SpecMission == MissionInit /\ [][MissionRun]_vars

----------------------------------------------------------------------------
(* SpecCombat: CombatState::update on combats started from a mission       *)

\* The frames a combat is driven with.
CombatFrames == Frames({"Key1", "Key2", "Enter", "E", "EndTurnButton"}, {0})

\* Hit points the leader can enter a combat with: unhurt, or after the
\* attacks of two earlier combats.
LeaderWounds == {0, 36}

\* The stress the leader can enter a combat with: the starting stress, or
\* the 100 that ResultState::update leaves after a dozen missions.
LeaderStress == {10, 100}

\* The MissionContext values process_current_node can build.
CombatContexts ==
    {[mission |-> first_mission, current_node |-> n,
      party_members |-> [members EXCEPT ![1].hp = @ - w, ![1].stress = st]] :
        n \in {1, 3}, members \in LaunchParties, w \in LeaderWounds,
        st \in LeaderStress}

\* A combat entered from a mission node.
CombatInit ==
    /\ mode = "Combat"
    /\ \E context \in CombatContexts :
         /\ combat = for_mission(context)
         /\ hist = GameHist("Mission", "ToCombat", "auto", NoPre, NoPost, <<>>,
                            Nil, <<0, 1>>, context.mission.id, 1)
    /\ base = Nil /\ select = Nil /\ mission = Nil /\ results = Nil
    /\ event = Nil /\ recruit = Nil
    /\ kingdom = KingdomDefault
    /\ roster = RosterStarter

CombatRun == CombatArm(CombatFrames)

SpecCombat == CombatInit /\ [][CombatRun]_vars


----------------------------------------------------------------------------
(* SpecResults: the end of a mission and the confirmation of its results   *)

\* Hit points a member has lost and the stress a member carries when the
\* last combat of a mission hands the party back: a hit of the Forest Beast
\* or none, the starting stress or the stress after one rest.
EndWounds == {0, EnemyDefaultDamage}

EndStress == {10, 5}

\* The parties the last combat of a mission can hand back.
EndParties ==
    UNION {{[i \in DOMAIN members |->
                [members[i] EXCEPT !.hp = @ - w[i], !.stress = st[i]]] :
              w \in [DOMAIN members -> EndWounds],
              st \in [DOMAIN members -> EndStress]} :
           members \in LaunchParties}

\* The MissionState the won combat of a terminal node of the first mission
\* returns to.
ResultsInit ==
    /\ mode = "Mission"
    /\ \E members \in EndParties :
         \E map \in FirstMissionMaps :
           \E n \in DOMAIN map :
             /\ map[n].connections = <<>>
             /\ mission = with_node(
                     from_mission_with_party(first_mission, members, map),
                     map[n].id)
             /\ hist = GameHist("Combat", "ToMission", "none", NoPre, NoPost,
                                <<>>, Nil, <<map[n].layer>>, first_mission.id, 1)
    /\ base = Nil /\ select = Nil /\ combat = Nil /\ results = Nil
    /\ event = Nil /\ recruit = Nil
    /\ kingdom = KingdomDefault
    /\ roster = RosterStarter

SpecResults == ResultsInit /\ [][MissionRun \/ ResultsFrame]_vars

----------------------------------------------------------------------------
(* SpecRest: missions resumed after a won combat, walked into Rest nodes   *)

\* What a combat took from a member: nothing, or six hits of the Forest
\* Beast, which leave Marcus at 9 and Elena at -1.
RestWounds == {0, 6 * EnemyDefaultDamage}

\* The stress a member comes back with: the starting stress, or the little
\* that two enemy turns add after an event took it to 0.
RestStress == {10, 4}

\* The parties a won combat hands back to the mission.
RestParties ==
    UNION {{[i \in DOMAIN members |->
                [members[i] EXCEPT !.hp = @ - w[i], !.stress = st]] :
              w \in [DOMAIN members -> RestWounds], st \in RestStress} :
           members \in LaunchParties}

\* The MissionState the won combat of a Combat node of the first mission
\* returns to, one step before a Rest node.
RestInit ==
    /\ mode = "Mission"
    /\ \E members \in RestParties :
         \E map \in FirstMissionMaps :
           \E n \in DOMAIN map :
             /\ map[n].node_type = "Combat"
             /\ \E c \in DOMAIN map :
                   /\ map[c].id \in Range(map[n].connections)
                   /\ map[c].node_type = "Rest"
             /\ \E j \in DOMAIN members : members[j].hp > 0
             /\ mission = with_node(
                     from_mission_with_party(first_mission, members, map),
                     map[n].id)
             /\ hist = GameHist("Combat", "ToMission", "none", NoPre, NoPost,
                                <<>>, Nil, <<map[n].layer>>, first_mission.id, 1)
    /\ base = Nil /\ select = Nil /\ combat = Nil /\ results = Nil
    /\ event = Nil /\ recruit = Nil
    /\ kingdom = KingdomDefault
    /\ roster = RosterStarter

SpecRest == RestInit /\ [][MissionRun]_vars

----------------------------------------------------------------------------
(* SpecTurn: cards played and turns ended in a combat of a mission         *)

\* How many cards are played and turns ended in one behaviour of SpecTurn.
MaxTurnOps == 4

\* Cards of the card table the hands are dealt from.  The table is an asset
\* that is not among the sources; these cards carry the effects of
\* combat/effects.rs the turn depends on, one of them dearer than a turn's
\* energy.
TurnCards ==
    { Card("strike", 1, <<Damage(StrikeDamage)>>),
      Card("heavy_blow", StartEnergy + 1, <<Damage(10)>>),
      Card("stance", 1, <<Block(GuardBlock), BaseEffect("DisableAttacks")>>),
      Card("surge", 0, <<[BaseEffect("GainEnergy") EXCEPT !.amount = 2]>>),
      Card("prepare", 1, <<[BaseEffect("GainEnergyNextTurn") EXCEPT !.amount = 1]>>),
      Card("insight", 1, <<[BaseEffect("DrawCards") EXCEPT !.amount = 2]>>),
      Card("steel_nerves", 1,
           <<[BaseEffect("StressResistance") EXCEPT !.amount = 50]>>) }

\* The hands dealt: two cards of the table.
TurnHands == {<<a, b>> : a, b \in TurnCards}

\* The statuses a player carries into the turn.
TurnPlayerStatuses == {<<>>, <<StatusEffect("Strength", 2, 3)>>}

\* The statuses the enemy carries into the turn.
TurnEnemyStatuses ==
    {<<>>, <<StatusEffect("Stun", 1, 0)>>, <<StatusEffect("Vulnerable", 2, 0)>>}

\* What the last operation was, the card index it selected, the combat it
\* found, and what the cards played since the last end of turn resolved:
\* DisableAttacks (disabled), the sum of GainEnergyNextTurn (banked) and the
\* StressResistance percents (resisted).
TurnHist(op, idx, steps, disabled, banked, resisted) ==
    [op |-> op, idx |-> idx, pre |-> combat, steps |-> steps,
     disabled |-> disabled, banked |-> banked, resisted |-> resisted,
     pre_disabled |-> hist.disabled, pre_banked |-> hist.banked,
     pre_resisted |-> hist.resisted]

\* The amounts of the effects of this kind on the card.
CardAmounts(card, kind) ==
    {card.effects[i].amount : i \in {j \in DOMAIN card.effects :
                                        card.effects[j].kind = kind}}

\* The sum of the amounts of the effects of this kind on the card.
CardAmount(card, kind) ==
    SumSeq([i \in DOMAIN card.effects |->
                IF card.effects[i].kind = kind THEN card.effects[i].amount
                ELSE 0])

\* What the second member cast on itself in its own turn: nothing, or
\* Strength 3 for three turns.
TurnCastStatuses == {<<>>, <<StatusEffect("Strength", 3, 3)>>}

\* A combat entered from the first node of the first mission, at the start
\* of its first turn; with two members also at the start of its third turn,
\* after the leader's turn and the second member's turn.
TurnStarts(members) ==
    LET cs == for_mission([mission |-> first_mission, current_node |-> 1,
                           party_members |-> members])
    IN  {cs} \cup
        (IF Len(members) > 1
         THEN {end_turn([end_turn(cs) EXCEPT !.players[2].statuses = st]) :
                 st \in TurnCastStatuses}
         ELSE {})

\* A turn under way: the current player and the enemy with the statuses the
\* cards played so far gave them, and the hand that is left.
TurnInit ==
    /\ mode = "Combat"
    /\ \E members \in LaunchParties :
         \E cs \in TurnStarts(members) :
           \E ps \in TurnPlayerStatuses, es \in TurnEnemyStatuses,
              hand \in TurnHands :
             /\ combat = [cs EXCEPT
                    !.players[cs.current_player_idx + 1].statuses = ps,
                    !.enemy.statuses = es,
                    !.hand = hand]
             /\ hist = [op |-> "init", idx |-> NoCard, pre |-> combat,
                        steps |-> 0, disabled |-> FALSE, banked |-> 0,
                        resisted |-> {},
                        pre_disabled |-> FALSE, pre_banked |-> 0,
                        pre_resisted |-> {}]
    /\ base = Nil /\ select = Nil /\ mission = Nil /\ results = Nil
    /\ event = Nil /\ recruit = Nil
    /\ kingdom = KingdomDefault
    /\ roster = RosterStarter

TurnFrame == UNCHANGED <<mode, base, select, mission, results, event, recruit,
                         kingdom, roster>>

\* A card is selected with its number key and played with Enter.
TurnPlay ==
    /\ hist.steps < MaxTurnOps
    /\ \E i \in 0..(Len(combat.hand) - 1) :
         \E res \in {try_play_selected_card([combat EXCEPT !.selected_card = i])} :
           LET card == combat.hand[i + 1]
               played == Len(res.hand) < Len(combat.hand)
           IN  /\ combat' = res
               /\ hist' = TurnHist("play", i, hist.steps + 1,
                            hist.disabled
                              \/ (played /\ \E j \in DOMAIN card.effects :
                                    card.effects[j].kind = "DisableAttacks"),
                            hist.banked
                              + (IF played
                                 THEN CardAmount(card, "GainEnergyNextTurn")
                                 ELSE 0),
                            hist.resisted
                              \cup (IF played
                                    THEN CardAmounts(card, "StressResistance")
                                    ELSE {}))
    /\ TurnFrame

\* The turn is ended with E.
TurnEnd ==
    /\ hist.steps < MaxTurnOps
    /\ \E res \in {end_turn(combat)} :
         /\ combat' = res
         /\ hist' = TurnHist("end_turn", NoCard, hist.steps + 1, FALSE, 0, {})
    /\ TurnFrame

SpecTurn == TurnInit /\ [][TurnPlay \/ TurnEnd]_vars

----------------------------------------------------------------------------
(* SpecReturn: encounters started from a mission and the return from them  *)

\* How many extra nodes the map of the launched mission has.
ReturnExtraNodes == 0

\* How many times the mission is resumed from an encounter.
MaxReturns == 1

\* The maps the mission is launched with.
ReturnMaps == BranchingMaps(first_mission, ReturnExtraNodes)

\* The layout of the MissionState that handed over to an encounter.
Layout(ms) == [map_nodes |-> ms.map_nodes, visited_nodes |-> ms.visited_nodes]

\* The state the last frame left, the transition it returned, the layout of
\* the MissionState that started the encounter under way (origin), and how
\* many encounters have returned to the mission; for a frame of an event,
\* whether the choice it confirmed has a Combat outcome (fight).
ReturnHistOf(from, t, origin, returns, fight) ==
    [from |-> from, transition |-> t.kind, origin |-> origin,
     returns |-> returns, fight |-> fight]

ReturnHist(from, t, origin, returns) ==
    ReturnHistOf(from, t, origin, returns, FALSE)

\* The first mission, launched from the mission select screen.
ReturnInit ==
    /\ mode = "Mission"
    /\ \E members \in LaunchParties : \E map \in ReturnMaps :
          mission = from_mission_with_party(first_mission, members, map)
    /\ hist = [from |-> "MissionSelect", transition |-> "ToMission",
               origin |-> Nil, returns |-> 0, fight |-> FALSE]
    /\ base = Nil /\ select = Nil /\ combat = Nil /\ results = Nil
    /\ event = Nil /\ recruit = Nil
    /\ kingdom = KingdomDefault
    /\ roster = RosterStarter

\* GameState::Mission arm of Game::update.
ReturnMissionFrame ==
    /\ mode = "Mission"
    /\ hist.returns < MaxReturns
    /\ \E inp \in GameMissionFrames : \E res \in {MissionUpdate(mission, inp)} :
         /\ Dispatch("Mission", res.m, res.t)
         /\ hist' = ReturnHist("Mission", res.t,
                               IF res.t.kind \in {"ToCombat", "ToEvent"}
                               THEN Layout(res.m) ELSE Nil,
                               hist.returns)
    /\ UNCHANGED <<kingdom, roster>>

\* GameState::Event arm of Game::update.
ReturnEventFrame ==
    /\ mode = "Event"
    /\ \E inp \in EventFrames : \E probe \in {EventUpdate(event, inp, <<>>)} :
         IF probe.t.kind = "ToMission"
         THEN \E map \in GameMaps(event.mission_context.mission) :
                \E res \in {EventUpdate(event, inp, map)} :
                   /\ Dispatch("Event", res.e, res.t)
                   /\ hist' = ReturnHistOf("Event", res.t, hist.origin,
                                           hist.returns + 1,
                                           res.e.trigger_combat)
         ELSE /\ Dispatch("Event", probe.e, probe.t)
              /\ hist' = ReturnHistOf("Event", probe.t, hist.origin,
                                      hist.returns, probe.e.trigger_combat)
    /\ UNCHANGED <<kingdom, roster>>

\* GameState::Combat arm of Game::update.
ReturnCombatFrame ==
    /\ mode = "Combat"
    /\ \E inp \in CombatFrames : \E probe \in {CombatUpdate(combat, inp, <<>>)} :
         /\ probe.c.turn <= MaxTurns
         /\ IF probe.t.kind = "ToMission"
            THEN \E map \in GameMaps(combat.return_mission.mission) :
                   \E res \in {CombatUpdate(combat, inp, map)} :
                      /\ Dispatch("Combat", res.c, res.t)
                      /\ hist' = ReturnHist("Combat", res.t, hist.origin,
                                            hist.returns + 1)
            ELSE /\ Dispatch("Combat", probe.c, probe.t)
                 /\ hist' = ReturnHist("Combat", probe.t, hist.origin,
                                       hist.returns)
    /\ UNCHANGED <<kingdom, roster>>

SpecReturn ==
    ReturnInit
    /\ [][ReturnMissionFrame \/ ReturnEventFrame \/ ReturnCombatFrame]_vars

----------------------------------------------------------------------------
(* SpecResume: the boss combat of suppress_beasts and the mission it       *)
(* returns to                                                              *)

\* The ids the Boss node of suppress_beasts can have: the last node of each
\* map the game can generate for the mission.
ResumeNodes == {map[Len(map)].id : map \in GameMaps(suppress_beasts)}

\* The combat process_current_node starts when the party enters the Boss
\* node.
ResumeInit ==
    /\ mode = "Combat"
    /\ \E members \in LaunchParties : \E n \in ResumeNodes :
          combat = for_mission([mission |-> suppress_beasts, current_node |-> n,
                                party_members |-> members])
    /\ hist = [from |-> "Mission", transition |-> "ToCombat", origin |-> Nil,
               returns |-> 0, fight |-> FALSE]
    /\ base = Nil /\ select = Nil /\ mission = Nil /\ results = Nil
    /\ event = Nil /\ recruit = Nil
    /\ kingdom = KingdomDefault
    /\ roster = RosterStarter

\* GameState::Combat arm of Game::update, until the combat is won.
ResumeCombatFrame == hist.returns < MaxReturns /\ ReturnCombatFrame

\* GameState::Mission arm of Game::update: the first frame of the resumed
\* mission.
ResumeMissionFrame ==
    /\ mode = "Mission"
    /\ hist.from = "Combat"
    /\ \E inp \in GameMissionFrames : \E res \in {MissionUpdate(mission, inp)} :
         /\ Dispatch("Mission", res.m, res.t)
         /\ hist' = ReturnHist("Mission", res.t, Nil, hist.returns)
    /\ UNCHANGED <<kingdom, roster>>

SpecResume == ResumeInit /\ [][ResumeCombatFrame \/ ResumeMissionFrame]_vars

----------------------------------------------------------------------------
(* SpecKingdom: the handlers that spend and earn gold and supplies         *)

\* How many missions one behaviour of SpecKingdom brings to their results.
MaxKingdomMissions == 2

\* The frames the base, the recruit screen and the results are driven with.
\* One key or one click a frame, and H together with T.
KingdomBaseFrames ==
    {Input({key}, NoSelection) :
        key \in {"Tab", "Key1", "Key2", "Key3", "Enter", "H", "T", "R"}}
    \cup {Input({}, c) : c \in {0, 1, 2}}
    \cup {Input({"H", "T"}, NoSelection)}

KingdomRecruitFrames ==
    {Input({key}, NoSelection) : key \in {"Down", "Enter", "Escape"}}

\* The names Recruit::random draws for the three recruits.
KingdomNames == <<"Aldric", "Beatrix", "Aldric">>

\* The handler that ran last, its input, the kingdom, roster, BaseState and
\* RecruitState it ran on, and the number of missions played so far.
KingdomHist(from, inp, missions) ==
    [from |-> from, inp |-> inp,
     pre |-> [k |-> kingdom, r |-> roster, b |-> base, rc |-> recruit],
     missions |-> missions]

\* Game::new without a save file.
KingdomInit ==
    /\ mode = "Base"
    /\ base = BaseDefault
    /\ select = Nil /\ mission = Nil /\ combat = Nil /\ results = Nil
    /\ event = Nil /\ recruit = Nil
    /\ kingdom = KingdomDefault
    /\ roster = RosterStarter
    /\ hist = [from |-> "init", inp |-> Input({}, NoSelection),
               pre |-> [k |-> Nil, r |-> Nil, b |-> Nil, rc |-> Nil],
               missions |-> 0]

\* GameState::Base arm of Game::update, for the frames that stay in the
\* base or open the recruit screen.
KingdomBaseFrame ==
    /\ mode = "Base"
    /\ \E inp \in KingdomBaseFrames :
         \E res \in {BaseUpdate(base, kingdom, roster, inp)} :
             /\ res.t.kind \in {"None", "ToRecruit"}
             /\ IF res.t.kind = "None" THEN Activate("Base", res.b)
                ELSE transition(res.t, KingdomNames)
             /\ kingdom' = res.k
             /\ roster' = res.r
             /\ hist' = KingdomHist("Base", inp, hist.missions)

\* A mission launched from the base and played to its end: the states it
\* passes through leave kingdom and roster alone, and it hands the results
\* of its leader, the first adventurer of the roster, to Game::transition.
KingdomMission ==
    /\ mode = "Base"
    /\ hist.missions < MaxKingdomMissions
    /\ roster.adventurers # <<>>
    /\ \E rs \in {victory_for_party(<<from_adventurer(roster.adventurers[1])>>),
                  defeat_for_party(<<from_adventurer(roster.adventurers[1])>>)} :
         transition(Transition("ToResults", rs), <<>>)
    /\ hist' = KingdomHist("Mission", Input({}, NoSelection), hist.missions + 1)
    /\ UNCHANGED <<kingdom, roster>>

\* GameState::Results arm of Game::update.
KingdomResultsFrame ==
    /\ mode = "Results"
    /\ \E inp \in ResultsFrames :
         \E res \in {ResultsUpdate(results, kingdom, roster, inp)} :
             /\ Dispatch("Results", results, res.t)
             /\ kingdom' = res.k
             /\ roster' = res.r
             /\ hist' = KingdomHist("Results", inp, hist.missions)

\* GameState::Recruit arm of Game::update.
KingdomRecruitFrame ==
    /\ mode = "Recruit"
    /\ \E inp \in KingdomRecruitFrames :
         \E res \in {RecruitUpdate(recruit, kingdom, roster, inp)} :
             /\ Dispatch("Recruit", res.rc, res.t)
             /\ kingdom' = res.k
             /\ roster' = res.r
             /\ hist' = KingdomHist("Recruit", inp, hist.missions)

SpecKingdom ==
    KingdomInit
    /\ [][KingdomBaseFrame \/ KingdomMission \/ KingdomResultsFrame
          \/ KingdomRecruitFrame]_vars

----------------------------------------------------------------------------
(* SpecOutcome: CombatState::update and the transition it returns          *)

\* The roster after the Soldier and the Scout of one RecruitState were
\* hired with the starting gold, Recruit::random having drawn the same name
\* for both.
NamesakeRoster ==
    LET rc == RecruitNew(<<"Aldric", "Aldric", "Beatrix">>, RecruitIds)
    IN  roster_add(roster_add(RosterStarter, rc.recruits[1].adventurer),
                   rc.recruits[2].adventurer)

\* The MissionContext of the first combat node for the party of the two.
NamesakeContext ==
    [mission |-> first_mission, current_node |-> 1,
     party_members |->
        for_party(add_member(with_leader(RecruitIds[1]), RecruitIds[2]),
                  NamesakeRoster).party_members]

\* The combats played: those entered from a mission, and the combat of
\* CombatState::default, which no mission waits for.
OutcomeStarts == {for_mission(context) : context \in CombatContexts}
                 \cup {DefaultCombatState, for_mission(NamesakeContext)}

\* The transition the last frame returned and the CombatState it was
\* returned for.
OutcomeHist(t, post, pre, ended) ==
    [from |-> "Combat", transition |-> t.kind, post |-> post, pre |-> pre,
     ended |-> ended]

\* Whether a frame's input ends the turn: E or the End Turn button.
EndsTurn(inp) == "E" \in inp.keys \/ "EndTurnButton" \in inp.keys

OutcomeInit ==
    /\ mode = "Combat"
    /\ combat \in OutcomeStarts
    /\ hist = [from |-> "Mission", transition |-> "ToCombat", post |-> Nil,
               pre |-> Nil, ended |-> FALSE]
    /\ base = Nil /\ select = Nil /\ mission = Nil /\ results = Nil
    /\ event = Nil /\ recruit = Nil
    /\ kingdom = KingdomDefault
    /\ roster = RosterStarter

\* GameState::Combat arm of Game::update.
OutcomeFrame ==
    /\ mode = "Combat"
    /\ \E inp \in CombatFrames : \E probe \in {CombatUpdate(combat, inp, <<>>)} :
         /\ probe.c.turn <= MaxTurns
         /\ IF probe.t.kind = "ToMission"
            THEN \E map \in GameMaps(combat.return_mission.mission) :
                   \E res \in {CombatUpdate(combat, inp, map)} :
                      /\ Dispatch("Combat", res.c, res.t)
                      /\ hist' = OutcomeHist(res.t, res.c, combat,
                                              EndsTurn(inp))
            ELSE /\ Dispatch("Combat", probe.c, probe.t)
                 /\ hist' = OutcomeHist(probe.t, probe.c, combat,
                                         EndsTurn(inp))
    /\ UNCHANGED <<kingdom, roster>>

SpecOutcome == OutcomeInit /\ [][OutcomeFrame]_vars

----------------------------------------------------------------------------
(* SpecEvent: EventState::update on the events of missions/events.rs       *)

\* The nodes random_event has an event for.
EventNodes == {0, 2, 4}

\* An event opened for the leader of a party in the first mission, at the
\* node random_event gives it for.
EventInit ==
    /\ mode = "Event"
    /\ \E members \in LaunchParties : \E node \in EventNodes :
          event = EventWithContext(random_event(node), members[1],
                                   first_mission, node, members)
    /\ hist = [from |-> "Mission", transition |-> "ToEvent", origin |-> Nil,
               returns |-> 0, fight |-> FALSE]
    /\ base = Nil /\ select = Nil /\ mission = Nil /\ combat = Nil
    /\ results = Nil /\ recruit = Nil
    /\ kingdom = KingdomDefault
    /\ roster = RosterStarter

SpecEvent == EventInit /\ [][ReturnEventFrame]_vars

----------------------------------------------------------------------------
(* save/mod.rs and the save and load keys of game.rs; SpecSave             *)

SAVE_VERSION == 1

\* The largest version number found in a stored save.
MaxVersion == 3

\* The save file: absent, not parseable as a SaveData, or a SaveData.
NoFile == [kind |-> "absent"]

Unreadable == [kind |-> "unreadable"]

\* SaveData::new
SaveData_new(k, r) ==
    [kind |-> "save", version |-> SAVE_VERSION, kingdom |-> k, roster |-> r,
     total_missions |-> 0, total_deaths |-> 0]

\* A bug load could have: the current version is rejected as well.
load_rejects_current(file) ==
    IF file.kind # "save" THEN [ok |-> FALSE, save |-> Nil, err |-> "load_json"]
    ELSE IF file.version >= SAVE_VERSION
         THEN [ok |-> FALSE, save |-> Nil, err |-> "newer"]
         ELSE [ok |-> TRUE, save |-> file, err |-> ""]

\* SaveData::load on the file at the save path: Ok(save) or Err(message).
load(file) ==
    IF file.kind # "save" THEN [ok |-> FALSE, save |-> Nil, err |-> "load_json"]
    ELSE IF file.version > SAVE_VERSION
         THEN [ok |-> FALSE, save |-> Nil, err |-> "newer"]
         ELSE [ok |-> TRUE, save |-> file, err |-> ""]

\* The kingdoms and rosters a game or a save can hold: the defaults, the
\* kingdom after a victory, the roster after Elena's death.
SavedKingdoms ==
    {KingdomDefault, [KingdomDefault EXCEPT !.stats.gold = @ + 20]}

SavedRosters == {RosterStarter, record_death(RosterStarter, "adv_2")}

\* The files a game can find at its save path.
StoredFiles ==
    {NoFile, Unreadable}
    \cup {[SaveData_new(k, r) EXCEPT !.version = v, !.total_missions = n] :
            k \in SavedKingdoms, r \in SavedRosters, v \in 0..MaxVersion,
            n \in {0, 1}}

\* What the last frame did: the keys pressed, whether load ran (op "load"),
\* save ran (op "save") or neither, the save file afterwards (disk), what
\* load returned, and the file, kingdom, roster and mode the frame found.
SaveHist(op, disk, result) ==
    [op |-> op, disk |-> disk, result |-> result, keys |-> {},
     pre_disk |-> disk, pre_kingdom |-> Nil, pre_roster |-> Nil,
     pre_mode |-> ""]

NoResult == [ok |-> FALSE, save |-> Nil, err |-> "none"]

\* A running game at the base, with some file at the save path.
SaveInit ==
    /\ mode = "Base"
    /\ base = BaseDefault
    /\ select = Nil /\ mission = Nil /\ combat = Nil /\ results = Nil
    /\ event = Nil /\ recruit = Nil
    /\ kingdom \in SavedKingdoms
    /\ roster \in SavedRosters
    /\ \E file \in StoredFiles : hist = SaveHist("init", file, NoResult)

\* The frames of SpecSave: the save and load keys, and the keys that lead
\* from the base to the recruit screen and back.
SaveFrames == Frames({"F5", "F9", "R", "Escape"}, {})

\* A variant that handles the save and load keys in every state.
SaveLoadAllowed_everywhere(m) == TRUE

\* Game::update: save and load are handled only in the Base state.
SaveLoadAllowed(m) == m = "Base"

\* Game::update with the save (F5) and load (F9) keys: save_game, then
\* load_game, then the arm of the active state.  save_json writes the file
\* or fails.
SaveFrame ==
    /\ mode \in {"Base", "Recruit"}
    /\ \E inp \in SaveFrames, written \in BOOLEAN :
         \E saves \in {SaveLoadAllowed(mode) /\ "F5" \in inp.keys},
            loads \in {SaveLoadAllowed(mode) /\ "F9" \in inp.keys} :
         \E disk \in {IF saves /\ written THEN SaveData_new(kingdom, roster)
                      ELSE hist.disk} :
         \E res \in {IF loads THEN load(disk) ELSE NoResult} :
         \E k1 \in {IF res.ok THEN res.save.kingdom ELSE kingdom},
            r1 \in {IF res.ok THEN res.save.roster ELSE roster} :
            /\ IF mode = "Base"
               THEN \E arm \in {BaseUpdate(base, k1, r1, inp)} :
                      /\ Dispatch("Base", arm.b, arm.t)
                      /\ kingdom' = arm.k
                      /\ roster' = arm.r
               ELSE \E arm \in {RecruitUpdate(recruit, k1, r1, inp)} :
                      /\ Dispatch("Recruit", arm.rc, arm.t)
                      /\ kingdom' = arm.k
                      /\ roster' = arm.r
            /\ hist' = [op |-> IF loads THEN "load"
                               ELSE IF saves THEN "save" ELSE "frame",
                        disk |-> disk, result |-> res, keys |-> inp.keys,
                        pre_disk |-> hist.disk, pre_kingdom |-> kingdom,
                        pre_roster |-> roster, pre_mode |-> mode]

SpecSave == SaveInit /\ [][SaveFrame]_vars

----------------------------------------------------------------------------
(* SpecParty: Party::add_member and Party::remove_member                   *)

\* The adventurer ids offered to a party: one more than it can hold.
PartyIds == {"adv_1", "adv_2", "adv_3", "adv_4", "adv_5"}

PartyHist(op, id, ret) ==
    [op |-> op, id |-> id, ret |-> ret, pre |-> base.forming_party]

\* The base with a party just created by Party::new or Party::with_leader.
PartyInit ==
    /\ mode = "Base"
    /\ \E party \in {PartyNew} \cup {with_leader(id) : id \in PartyIds} :
         /\ base = [BaseDefault EXCEPT !.forming_party = party]
         /\ hist = [op |-> "init", id |-> "", ret |-> FALSE, pre |-> party]
    /\ select = Nil /\ mission = Nil /\ combat = Nil /\ results = Nil
    /\ event = Nil /\ recruit = Nil
    /\ kingdom = KingdomDefault
    /\ roster = RosterStarter

\* forming_party.add_member(id)
PartyAdd ==
    /\ \E id \in PartyIds :
         /\ base' = [base EXCEPT !.forming_party = add_member(@, id)]
         /\ hist' = PartyHist("add_member", id,
                              add_member_returns(base.forming_party, id))
    /\ UNCHANGED <<mode, select, mission, combat, results, event, recruit,
                   kingdom, roster>>

\* forming_party.remove_member(id)
PartyRemove ==
    /\ \E id \in PartyIds :
         /\ base' = [base EXCEPT !.forming_party = remove_member(@, id)]
         /\ hist' = PartyHist("remove_member", id,
                              remove_member_returns(base.forming_party, id))
    /\ UNCHANGED <<mode, select, mission, combat, results, event, recruit,
                   kingdom, roster>>

SpecParty == PartyInit /\ [][PartyAdd \/ PartyRemove]_vars

----------------------------------------------------------------------------
(* Properties of Spec, SpecMission and SpecCombat                          *)

Modes == {"Base", "MissionSelect", "Mission", "Combat", "Results", "Event",
          "Recruit"}

\* C6 as stated: a Scout mission of length 5 that is traversed to its end
\* finishes with a victory after entering one node in each of the layers
\* 0, 1, 2, 3, 4, in this order.
C6_ScoutTraversal ==
    (mode = "Results" /\ hist.from = "Mission" /\ results.victory
        /\ hist.mission_id = first_mission.id)
    => hist.trail = <<0, 1, 2, 3, 4>>

\* The last frame was an advance: no path choice was pending, Space was
\* pressed and the current node exists.
Advanced ==
    /\ hist.from = "Mission"
    /\ hist.pre.paths = <<>>
    /\ hist.pre.space
    /\ hist.pre.has_node

\* The node entered by the last frame was resolved by process_current_node:
\* a Combat or Boss node starts a combat at that node with the party as it
\* was, an Event node with an event starts that event, a Rest node rests the
\* party, and any other node changes nothing.
NodeResolved(node) ==
    CASE hist.pre.entered_type \in {"Combat", "Boss"} ->
            /\ hist.transition = "ToCombat" /\ mode = "Combat"
            /\ combat.return_mission.current_node = node
            /\ combat.return_mission.party_members = hist.pre.party
      [] hist.pre.entered_type = "Event" /\ random_event(node) # NoEvent ->
            /\ hist.transition = "ToEvent" /\ mode = "Event"
            /\ event.event = random_event(node)
            /\ event.mission_context.current_node = node
            /\ event.mission_context.party_members = hist.pre.party
      [] hist.pre.entered_type = "Rest" ->
            /\ hist.transition \notin {"ToCombat", "ToEvent"}
            /\ hist.post.party = rest_party(hist.pre.party)
      [] OTHER ->
            /\ hist.transition \notin {"ToCombat", "ToEvent"}
            /\ hist.post.party = hist.pre.party

\* The last frame entered this node: it is the current node and the last
\* entry of visited_nodes, no path choice is pending, and it was resolved.
Entered(node) ==
    /\ hist.pre.entered = node
    /\ hist.post.node = node
    /\ hist.post.visited = Append(hist.pre.visited, node)
    /\ hist.post.paths = <<>>
    /\ NodeResolved(node)

\* C7: with no path choice pending, an advance from a node without
\* connections returns the victory Results transition, and an advance from
\* a node with exactly one connection enters that node (current_node_id,
\* visited_nodes, resolution) and leaves available_paths empty.
C7_AdvanceZeroOrOne ==
    Advanced =>
        /\ Len(hist.pre.connections) = 0 =>
              /\ hist.transition = "ToResults"
              /\ mode = "Results"
              /\ results.victory
        /\ Len(hist.pre.connections) = 1 => Entered(hist.pre.connections[1])

\* An advance over a single connection that started a combat.
C7_Witness ==
    /\ Advanced
    /\ Len(hist.pre.connections) = 1
    /\ mode = "Combat"
    /\ Len(hist.pre.visited) >= 2

\* C8: an advance from a node with two or more connections only opens the
\* path choice (available_paths = the connections, selected_path = 0,
\* current node and visited list unchanged); a confirm enters the selected
\* path: with nothing but the confirm key pressed that is
\* available_paths[selected_path], and with any frame it is one of the
\* available paths.
C8_ForkThenConfirm ==
    /\ (Advanced /\ Len(hist.pre.connections) >= 2) =>
          /\ hist.post.paths = hist.pre.connections
          /\ hist.post.sel = 0
          /\ hist.post.node = hist.pre.node
          /\ hist.post.visited = hist.pre.visited
          /\ hist.post.party = hist.pre.party
          /\ hist.transition \in {"None", "ToBase"}
    /\ (hist.from = "Mission" /\ hist.pre.paths # <<>> /\ hist.pre.plain
            /\ hist.pre.confirm) =>
          Entered(hist.pre.paths[hist.pre.sel + 1])
    /\ (hist.from = "Mission" /\ hist.op = "confirm") =>
          /\ hist.pre.paths # <<>>
          /\ hist.pre.entered \in Range(hist.pre.paths)
          /\ Entered(hist.pre.entered)

\* A confirm of the second of two paths.
C8_Witness ==
    /\ hist.from = "Mission"
    /\ hist.pre.plain /\ hist.pre.confirm
    /\ Len(hist.pre.paths) >= 2
    /\ hist.pre.sel = 1
    /\ hist.post.node = hist.pre.paths[2]

\* The payload each mode keeps.
ActivePayload ==
    [Base |-> base, MissionSelect |-> select, Mission |-> mission,
     Combat |-> combat, Results |-> results, Event |-> event,
     Recruit |-> recruit]

\* The mode each transition activates.
TargetMode ==
    [ToBase |-> "Base", ToMissionSelect |-> "MissionSelect",
     ToMission |-> "Mission", ToCombat |-> "Combat", ToResults |-> "Results",
     ToEvent |-> "Event", ToRecruit |-> "Recruit"]

AllowedChanges ==
    {<<"Base", "MissionSelect">>, <<"Base", "Recruit">>,
     <<"MissionSelect", "Mission">>, <<"MissionSelect", "Base">>,
     <<"Mission", "Combat">>, <<"Mission", "Event">>,
     <<"Mission", "Results">>, <<"Mission", "Base">>,
     <<"Combat", "Mission">>, <<"Combat", "Results">>,
     <<"Event", "Mission">>, <<"Event", "Base">>,
     <<"Results", "Base">>, <<"Recruit", "Base">>}

\* C9: exactly one GameState is active; a frame whose update returns no
\* transition leaves the mode as it was, a returned transition activates
\* its target, and the mode only ever changes along the fourteen listed
\* pairs.
C9_ModeChanges ==
    /\ mode \in Modes
    /\ \A m \in Modes : (ActivePayload[m] # Nil) <=> (m = mode)
    /\ hist.transition = "None" => mode = hist.from
    /\ hist.transition # "None" => mode = TargetMode[hist.transition]
    /\ mode # hist.from => <<hist.from, mode>> \in AllowedChanges

\* A won combat handed the game back to the mission.
C9_Witness ==
    /\ hist.from = "Combat"
    /\ hist.transition = "ToMission"
    /\ mode = "Mission"

\* C10: after a combat victory inside a mission the active MissionState
\* holds, member by member, the hp and stress of the units at the end of
\* the combat with max_hp as it was, and its current node is the node the
\* combat was started at.
C10_VictoryCarriesBack ==
    (hist.from = "Combat" /\ hist.transition = "ToMission") =>
        /\ mode = "Mission"
        /\ DOMAIN mission.party_members = DOMAIN hist.units
        /\ DOMAIN mission.party_members = DOMAIN hist.ctx.party_members
        /\ \A i \in DOMAIN mission.party_members :
              /\ mission.party_members[i].hp = hist.units[i].hp
              /\ mission.party_members[i].stress = hist.units[i].stress
              /\ mission.party_members[i].max_hp
                    = hist.ctx.party_members[i].max_hp
              /\ mission.party_members[i].name = hist.ctx.party_members[i].name
        /\ mission.current_node_id = hist.ctx.current_node

\* A victory of a party of two in which both members lost hp and gained
\* stress during the combat.
C10_Witness ==
    /\ hist.from = "Combat"
    /\ hist.transition = "ToMission"
    /\ Len(mission.party_members) = 2
    /\ \A i \in DOMAIN mission.party_members :
          /\ mission.party_members[i].hp < hist.ctx.party_members[i].hp
          /\ mission.party_members[i].stress > hist.ctx.party_members[i].stress

----------------------------------------------------------------------------
(* Properties of SpecResults                                               *)

\* The frame confirms the results of a mission that has just ended.
ResultsConfirmed ==
    /\ mode = "Results" /\ hist.from = "Mission" /\ hist.transition = "ToResults"
    /\ mode' = "Base"

\* C11 as stated: when the results of a finished mission are confirmed,
\* every party member's hit points and stress at the end of the mission are
\* those of the roster adventurer with the member's id afterwards, and the
\* adventurers outside the party are left as they were.
C11_PartyWrittenBack ==
    [][ResultsConfirmed =>
        LET party == hist.post.party
            ids == {party[i].id : i \in DOMAIN party}
        IN  /\ \A i \in DOMAIN party :
                 \E j \in DOMAIN roster'.adventurers :
                    /\ roster'.adventurers[j].id = party[i].id
                    /\ roster'.adventurers[j].hp = party[i].hp
                    /\ roster'.adventurers[j].stress = party[i].stress
            /\ \A j \in DOMAIN roster.adventurers :
                 roster.adventurers[j].id \notin ids
                    => \E h \in DOMAIN roster'.adventurers :
                         roster'.adventurers[h] = roster.adventurers[j]]_vars

----------------------------------------------------------------------------
(* Properties of SpecSave                                                  *)

\* C20: load on a stored save whose version is greater than SAVE_VERSION
\* returns an error and no SaveData; on one whose version is at most
\* SAVE_VERSION it returns that save, field for field.
C20_LoadChecksVersion ==
    (hist.op = "load" /\ hist.disk.kind = "save") =>
        IF hist.disk.version > SAVE_VERSION
        THEN ~hist.result.ok /\ hist.result.save = Nil
        ELSE /\ hist.result.ok
             /\ hist.result.save.version = hist.disk.version
             /\ hist.result.save.kingdom = hist.disk.kingdom
             /\ hist.result.save.roster = hist.disk.roster
             /\ hist.result.save.total_missions = hist.disk.total_missions
             /\ hist.result.save.total_deaths = hist.disk.total_deaths

\* A save of version 2 is refused, and the game keeps a kingdom that
\* differs from the stored one.
C20_Witness ==
    /\ hist.op = "load" /\ hist.disk.kind = "save"
    /\ hist.disk.version = 2
    /\ ~hist.result.ok
    /\ kingdom # hist.disk.kingdom

\* C21: a load attempt that fails leaves the kingdom, the roster and the
\* active state as the frame found them, and outside the Base state the
\* save and load keys neither write the file nor load from it.
C21_FailedLoadKeepsState ==
    /\ (hist.op = "load" /\ ~hist.result.ok /\ hist.keys \subseteq {"F5", "F9"}) =>
          /\ kingdom = hist.pre_kingdom
          /\ roster = hist.pre_roster
          /\ mode = hist.pre_mode
    /\ (hist.op # "init" /\ hist.pre_mode # "Base") =>
          /\ hist.disk = hist.pre_disk
          /\ hist.result = NoResult
          /\ kingdom = hist.pre_kingdom
          /\ roster = hist.pre_roster

\* F9 at the base with a save of a newer version whose roster differs from
\* the one in memory: the load fails and the roster stays.
C21_Witness ==
    /\ hist.op = "load" /\ hist.keys = {"F9"}
    /\ hist.disk.kind = "save" /\ hist.disk.version > SAVE_VERSION
    /\ ~hist.result.ok
    /\ hist.disk.roster # hist.pre_roster
    /\ roster = hist.pre_roster
    /\ mode = "Base"

----------------------------------------------------------------------------
(* Further properties of SpecCombat, SpecMission and SpecUnit              *)

\* C22 as stated: in a combat every player unit, and in a mission every
\* party member, has a stress within 0..100.
C22_StressWithinBounds ==
    /\ mode = "Combat" =>
          \A i \in DOMAIN combat.players : combat.players[i].stress \in 0..100
    /\ mode = "Mission" =>
          \A i \in DOMAIN mission.party_members :
             mission.party_members[i].stress \in 0..100

\* C26: every damage effect (Damage, DamageIfNoBlock, DamageIfLowHp,
\* DamageIfEnemyActed, DamageIfVulnerable) hands take_damage its amount
\* plus the player's Strength, times 0.75 rounded toward zero when the
\* player is Weak.  (Damage on a Vulnerable target is left to C1.)
C26_StrengthWeakOnEveryVariant ==
    (/\ hist.op = "resolve"
     /\ hist.effect.kind \in {"Damage", "DamageIfNoBlock", "DamageIfLowHp",
                              "DamageIfEnemyActed", "DamageIfVulnerable"}
     /\ ~(hist.effect.kind = "Damage" /\ has_status(hist.pre_target, "Vulnerable")))
    =>  LET total == IF hist.effect.kind = "Damage" THEN hist.effect.amount
                     ELSE ClaimedTotal
            a == total + StrengthOf(hist.pre_player)
            n == IF has_status(hist.pre_player, "Weak") THEN (3 * a) \div 4 ELSE a
        IN  (hist.pre_target.block + hist.pre_target.hp)
                - (combat.enemy.block + combat.enemy.hp) = Landed(n)

\* The field of the turn modifiers an effect of this kind writes.
ModifierField(kind) ==
    CASE kind = "StressResistance" -> "stress_resistance"
      [] kind = "DisableAttacks" -> "attacks_disabled"
      [] kind = "DrawCards" -> "cards_to_draw"
      [] kind = "GainEnergy" -> "energy_to_gain"
      [] kind = "GainEnergyNextTurn" -> "energy_next_turn"

\* C34: resolving StressResistance, DisableAttacks, DrawCards, GainEnergy or
\* GainEnergyNextTurn leaves player and target exactly as they were, and of
\* the turn modifiers changes at most the field of that effect.
C34_ModifiersLeaveUnits ==
    (hist.op = "resolve"
     /\ hist.effect.kind \in {"StressResistance", "DisableAttacks", "DrawCards",
                              "GainEnergy", "GainEnergyNextTurn"})
    =>  /\ combat.players[1] = hist.pre_player
        /\ combat.enemy = hist.pre_target
        /\ \A f \in DOMAIN combat.turn_mods :
              f # ModifierField(hist.effect.kind)
                 => combat.turn_mods[f] = hist.pre_mods[f]

\* GainEnergyNextTurn(2) resolved on a Weak player facing a Vulnerable
\* target with block: the units are as before and 2 is banked.
C34_Witness ==
    /\ hist.op = "resolve" /\ hist.effect.kind = "GainEnergyNextTurn"
    /\ has_status(hist.pre_player, "Weak")
    /\ has_status(hist.pre_target, "Vulnerable")
    /\ hist.pre_target.block > 0
    /\ combat.players[1] = hist.pre_player
    /\ combat.enemy = hist.pre_target
    /\ combat.turn_mods.energy_next_turn = hist.pre_mods.energy_next_turn + 2

----------------------------------------------------------------------------
(* Properties of SpecParty                                                 *)

\* The sequence without its entries equal to x.
Without(seq, x) == SelectSeq(seq, LAMBDA y : y # x)

\* C23: a party holds at most MAX_PARTY_SIZE ids and no id twice;
\* add_member appends the id and returns true, or returns false and changes
\* nothing when the party is full or holds the id; remove_member takes the
\* id out, keeping the order of the others, and returns true, or returns
\* false and changes nothing when the party does not hold the id.
C23_PartyBounded ==
    LET ids == base.forming_party.member_ids
        was == hist.pre.member_ids
        held == \E i \in DOMAIN was : was[i] = hist.id
    IN  /\ Len(ids) <= 4
        /\ \A i, j \in DOMAIN ids : i # j => ids[i] # ids[j]
        /\ hist.op = "add_member" =>
              IF Len(was) >= 4 \/ held
              THEN ~hist.ret /\ ids = was
              ELSE hist.ret /\ ids = Append(was, hist.id)
        /\ hist.op = "remove_member" =>
              IF held
              THEN hist.ret /\ ids = Without(was, hist.id)
              ELSE ~hist.ret /\ ids = was
        /\ (hist.op # "init" /\ was # <<>> /\ ids # <<>> /\ hist.id # was[1])
              => ids[1] = was[1]

\* A fifth id offered to a full party is refused.
C23_Witness ==
    /\ hist.op = "add_member"
    /\ Len(hist.pre.member_ids) = 4
    /\ \A i \in DOMAIN hist.pre.member_ids : hist.pre.member_ids[i] # hist.id
    /\ ~hist.ret
    /\ base.forming_party = hist.pre

----------------------------------------------------------------------------
(* Properties of SpecRest                                                  *)

\* C24: entering a Rest node gives every member with hp > 0 a tenth of its
\* max_hp (rounded down) up to max_hp and takes 5 from its stress down to 0,
\* leaves the hp of every member with hp <= 0 as it was, and keeps the game
\* in the mission at that node (unless Escape, pressed in the same frame,
\* leaves the mission).
C24_RestHealsLiving ==
    (hist.from = "Mission" /\ hist.pre.entered_type = "Rest") =>
        /\ hist.transition \in {"None", "ToBase"}
        /\ hist.transition = "None" => mode = "Mission"
        /\ hist.post.node = hist.pre.entered
        /\ DOMAIN hist.post.party = DOMAIN hist.pre.party
        /\ \A i \in DOMAIN hist.pre.party :
              LET was == hist.pre.party[i]
                  now == hist.post.party[i]
                  tenth == was.max_hp \div 10
              IN  IF was.hp > 0
                  THEN /\ now.hp = IF was.hp + tenth > was.max_hp
                                   THEN was.max_hp ELSE was.hp + tenth
                       /\ now.stress = IF was.stress < 5 THEN 0
                                       ELSE was.stress - 5
                  ELSE now.hp = was.hp

----------------------------------------------------------------------------
(* Properties of SpecTurn                                                  *)

\* The unit carries a Stun status.
Stunned(u) == \E i \in DOMAIN u.statuses : u.statuses[i].effect_type = "Stun"

\* C25: the enemy action applied when a turn ends is the one of the intent
\* the enemy held during that turn, damage for an Attack and 2 stress for a
\* Debuff, or nothing when the enemy is stunned at that moment; the intent
\* it holds afterwards is the one rolled for the turn that follows.
C25_StoredIntentExecuted ==
    LET pre == hist.pre
        i == pre.current_player_idx + 1
        it == pre.enemy.intent
        d == IF ~Stunned(pre.enemy) /\ it.kind = "Attack" THEN it.amount ELSE 0
        st == IF ~Stunned(pre.enemy) /\ it.kind = "Debuff" THEN 2 ELSE 0
        turn == pre.turn + 1
    IN  hist.op = "end_turn" =>
          /\ combat.players[i].hp = pre.players[i].hp - d
          /\ combat.damage_taken[i] = pre.damage_taken[i] + d
          /\ combat.stress_gained[i] = pre.stress_gained[i] + 2 + st
          /\ combat.enemy.intent =
                IF Stunned(combat.enemy) THEN [kind |-> "Unknown", amount |-> 0]
                ELSE IF turn % 4 = 1
                     THEN [kind |-> "Attack", amount |-> pre.enemy.base_damage + 2]
                ELSE IF turn % 4 = 2 THEN [kind |-> "Block", amount |-> 5]
                ELSE [kind |-> "Attack", amount |-> pre.enemy.base_damage]

\* A turn ended on an Attack intent: the player took its damage, and the
\* enemy now shows the Block of the next turn.
C25_Witness ==
    /\ hist.op = "end_turn"
    /\ hist.pre.enemy.intent.kind = "Attack"
    /\ ~Stunned(hist.pre.enemy)
    /\ combat.damage_taken[hist.pre.current_player_idx + 1]
          = hist.pre.damage_taken[hist.pre.current_player_idx + 1]
            + hist.pre.enemy.intent.amount
    /\ combat.enemy.intent.kind = "Block"

\* The last operation played the card it selected.
CardPlayed == hist.op = "play" /\ Len(combat.hand) < Len(hist.pre.hand)

\* C27: a played card leaves the energy at what it was less the cost plus
\* the card's GainEnergy, and the hand one card shorter plus the card's
\* DrawCards; the turn after an end of turn starts with max_energy plus the
\* GainEnergyNextTurn resolved in the turn that ended, and with
\* energy_next_turn back at 0.
C27_AccumulatorsConsumed ==
    /\ CardPlayed =>
          LET card == hist.pre.hand[hist.idx + 1]
          IN  /\ combat.energy = hist.pre.energy - card.cost
                                   + CardAmount(card, "GainEnergy")
              /\ Len(combat.hand) = Len(hist.pre.hand) - 1
                                      + CardAmount(card, "DrawCards")
    /\ hist.op = "end_turn" =>
          /\ combat.energy = combat.max_energy + hist.pre_banked
          /\ combat.turn_mods.energy_next_turn = 0

\* The statuses one tick leaves: every duration one less, those at 0 gone.
TickedOnce(statuses) ==
    SelectSeq([k \in DOMAIN statuses |->
                  [statuses[k] EXCEPT !.duration = @ - 1]],
              LAMBDA st : st.duration > 0)

\* C28: an end of turn ticks the statuses of every player unit and of the
\* enemy exactly once, and leaves the current player and the enemy without
\* block.
C28_EveryUnitTicked ==
    hist.op = "end_turn" =>
        /\ \A k \in DOMAIN hist.pre.players :
              combat.players[k].statuses
                 = TickedOnce(hist.pre.players[k].statuses)
        /\ combat.enemy.statuses = TickedOnce(hist.pre.enemy.statuses)
        /\ combat.players[hist.pre.current_player_idx + 1].block = 0
        /\ combat.enemy.block = 0

\* The card has an effect that deals damage.
AttackCard(card) ==
    \E k \in DOMAIN card.effects :
       card.effects[k].kind \in {"Damage", "DamageIfNoBlock", "DamageIfLowHp",
                                 "DamageIfEnemyActed", "DamageIfVulnerable"}

\* The last operation left energy, hand, units and turn modifiers alone.
NothingPlayed ==
    /\ combat.energy = hist.pre.energy
    /\ combat.hand = hist.pre.hand
    /\ combat.players = hist.pre.players
    /\ combat.enemy = hist.pre.enemy
    /\ combat.turn_mods = hist.pre.turn_mods

\* C30: the selected card is played, paying its cost and leaving the hand,
\* exactly when its cost is within the energy and it is not an attack card
\* under attacks_disabled; otherwise nothing changes.  The energy is never
\* negative, and once a played card resolved DisableAttacks no attack card
\* is played before the turn ends.
C30_PlayGuard ==
    /\ combat.energy >= 0
    /\ hist.op = "play" =>
          LET card == hist.pre.hand[hist.idx + 1]
              allowed == /\ card.cost <= hist.pre.energy
                         /\ ~(AttackCard(card) /\ hist.pre.turn_mods.attacks_disabled)
          IN  /\ allowed =>
                    /\ combat.energy = hist.pre.energy - card.cost
                    /\ Len(combat.hand) = Len(hist.pre.hand) - 1
              /\ ~allowed => NothingPlayed
              /\ (hist.pre_disabled /\ AttackCard(card)) => NothingPlayed

\* After a card with DisableAttacks, an attack card the energy would pay
\* for is selected and refused.
C30_Witness ==
    /\ hist.op = "play"
    /\ hist.pre_disabled
    /\ AttackCard(hist.pre.hand[hist.idx + 1])
    /\ hist.pre.hand[hist.idx + 1].cost <= hist.pre.energy
    /\ NothingPlayed

----------------------------------------------------------------------------
(* Properties of SpecReturn                                                *)

\* The last frame resumed the mission from a won combat or a resolved event.
Resumed ==
    mode = "Mission" /\ hist.from \in {"Combat", "Event"}
    /\ hist.transition = "ToMission"

\* C29: the mission resumed after a won combat or a resolved event has the
\* map_nodes and the visited_nodes of the MissionState that started the
\* encounter.
C29_LayoutPreserved ==
    Resumed => Layout(mission) = hist.origin

----------------------------------------------------------------------------
(* Properties of SpecOutcome                                               *)

\* Every player unit of the combat has hp <= 0.
AllDead(cs) == \A i \in DOMAIN cs.players : cs.players[i].hp <= 0

C32_ResistanceOfThisTurn ==
    hist.op = "end_turn" =>
        LET pre == hist.pre
            i == pre.current_player_idx + 1
            amount == IF ~Stunned(pre.enemy) /\ pre.enemy.intent.kind = "Debuff"
                      THEN 4 ELSE 2
            percent == Largest(hist.pre_resisted)
            gain == amount - ((amount * percent) \div 100)
        IN  combat.players[i].stress
              = pre.players[i].stress + (IF gain < 0 THEN 0 ELSE gain)

\* A turn in which StressResistance(50) was played ends: the player gains 1
\* stress, not 2.
C32_Witness ==
    /\ hist.op = "end_turn"
    /\ hist.pre_resisted = {50}
    /\ combat.players[hist.pre.current_player_idx + 1].stress
          = hist.pre.players[hist.pre.current_player_idx + 1].stress + 1

C35_BlockAbsorbsNextAttack ==
    hist.op = "end_turn" =>
        LET pre == hist.pre
            i == pre.current_player_idx + 1
            it == pre.enemy.intent
            left == it.amount - pre.players[i].block
        IN  /\ (~Stunned(pre.enemy) /\ it.kind = "Attack") =>
                  combat.players[i].hp
                     = pre.players[i].hp - (IF left < 0 THEN 0 ELSE left)
            /\ (~Stunned(pre.enemy) /\ it.kind = "Block") =>
                  combat.enemy.block >= it.amount

\* C36: after every end_turn, current_player_idx is an index into players,
\* and when some player unit has hp > 0 the unit at current_player_idx has
\* hp > 0.
C36_ActivePlayerAlive ==
    (hist.from = "Combat" /\ hist.ended) =>
        LET post == hist.post
        IN  /\ post.current_player_idx + 1 \in DOMAIN post.players
            /\ (\E i \in DOMAIN post.players : post.players[i].hp > 0)
                  => post.players[post.current_player_idx + 1].hp > 0

\* The second member ends a turn while the leader is dead: the loop passes
\* the leader and comes back to the second member.
C36_Witness ==
    /\ hist.from = "Combat" /\ hist.ended
    /\ Len(hist.pre.players) = 2
    /\ hist.pre.players[1].hp <= 0
    /\ hist.pre.current_player_idx = 1
    /\ hist.post.current_player_idx = 1
    /\ hist.post.players[2].hp > 0

\* C37: in every MissionState the game reaches, current_node_id is the id
\* of a node of map_nodes.
C37_CurrentNodeExists ==
    mode = "Mission" =>
        \E n \in DOMAIN mission.map_nodes :
            mission.map_nodes[n].id = mission.current_node_id

\* C38: after a combat victory the i-th PartyMemberState handed back to the
\* mission carries the id of the i-th party member that entered the combat,
\* also when two members have the same name.
C38_IdsHandedBack ==
    (mode = "Mission" /\ hist.from = "Combat" /\ hist.transition = "ToMission") =>
        LET entered == hist.pre.return_mission.party_members
        IN  /\ Len(mission.party_members) = Len(entered)
            /\ \A i \in DOMAIN entered : mission.party_members[i].id = entered[i].id

----------------------------------------------------------------------------
(* Properties of SpecKingdom                                               *)

\* The kingdom cannot pay for building i (1-based).
CannotBuild(k, i) ==
    \/ k.stats.gold < k.buildings[i].cost_gold
    \/ k.stats.supplies < k.buildings[i].cost_supplies

\* The kingdom cannot use the service of this building on an adventurer.
CannotServe(k, id) == ~has_building(k, id) \/ k.stats.supplies < 10

\* C40: from the default kingdom, gold and supplies never become negative
\* under constructions, heal and tavern actions, hires and mission results;
\* a building the kingdom cannot pay for is not built, a heal or a tavern
\* visit without its building or without 10 supplies changes no adventurer,
\* a recruit the kingdom cannot pay for is not hired, and a frame in which
\* nothing can be paid for leaves kingdom and roster as they were.
C40_NeverInDebt ==
    /\ kingdom.stats.gold >= 0
    /\ kingdom.stats.supplies >= 0
    /\ hist.from = "Base" =>
         LET pk == hist.pre.k
             pr == hist.pre.r
         IN  /\ \A i \in DOMAIN pk.buildings :
                  CannotBuild(pk, i) => kingdom.buildings[i] = pk.buildings[i]
             /\ CannotServe(pk, "infirmary") =>
                  \A j \in DOMAIN pr.adventurers :
                     roster.adventurers[j].hp = pr.adventurers[j].hp
             /\ CannotServe(pk, "chapel") =>
                  \A j \in DOMAIN pr.adventurers :
                     roster.adventurers[j].stress = pr.adventurers[j].stress
             /\ ((\A i \in DOMAIN pk.buildings :
                     pk.buildings[i].built \/ CannotBuild(pk, i))
                 /\ CannotServe(pk, "infirmary") /\ CannotServe(pk, "chapel"))
                  => (kingdom = pk /\ roster = pr)
    /\ hist.from = "Recruit" =>
         LET pk == hist.pre.k
             pr == hist.pre.r
             offered == hist.pre.rc.recruits
         IN  /\ (\A i \in DOMAIN offered : pk.stats.gold < offered[i].cost)
                  => (kingdom = pk /\ roster = pr)
             /\ roster # pr =>
                  \E i \in DOMAIN offered :
                     /\ offered[i].cost <= pk.stats.gold
                     /\ roster = roster_add(pr, offered[i].adventurer)
                     /\ kingdom = [pk EXCEPT !.stats.gold = @ - offered[i].cost]

\* Enter on the selected infirmary when the gold is there and the supplies
\* are not: nothing is built and nothing is paid.
C40_Witness ==
    /\ mode = "Base"
    /\ hist.from = "Base"
    /\ hist.inp.keys = {"Enter"}
    /\ base.focus = "Buildings"
    /\ base.selected_building = 0
    /\ ~kingdom.buildings[1].built
    /\ kingdom.stats.gold >= kingdom.buildings[1].cost_gold
    /\ kingdom.stats.supplies < kingdom.buildings[1].cost_supplies
    /\ kingdom = hist.pre.k
    /\ roster = hist.pre.r

============================================================================
